---- MODULE Spec2Model ----
(***************************************************************************)
(* Balance ledger of credresolve (src/server/services): directed pairwise  *)
(* balances per group, maintained incrementally by add_expense and         *)
(* record_settlement and rebuilt by recalculate_group_balances.            *)
(*                                                                         *)
(* Money is counted in whole cents (1 == 0.01), so the tolerance 0.01 of   *)
(* the code is 1 and round(x, 2) is rounding to a whole number of cents.   *)
(* Percentages are counted in hundredths of a percent.  The inputs of the  *)
(* model make no share an exact half cent, where the result of Python's    *)
(* round() depends on the binary representation.                           *)
(***************************************************************************)
EXTENDS Integers, Sequences, FiniteSets, TLC

VARIABLES
    balances,      \* table balances: [<<group_id, from_user_id, to_user_id>> -> amount]
    expenses,      \* table expenses (with expense_splits), in creation order
    settlements,   \* table settlements, in insertion order
    nextId,        \* number of expense ids handed out so far
    last,          \* the last request served and its response
    calls          \* the add_expense requests in progress, one per worker

vars == <<balances, expenses, settlements, nextId, last, calls>>

----------------------------------------------------------------------------
(* Bounds of the model *)

MaxExpenses == 2     \* expenses created in one behaviour
MaxSettlements == 2     \* settlements recorded in one behaviour
MaxCalls == 3     \* add_expense requests of the concurrent workers in one behaviour
MaxTransfers == 4     \* update_balance calls applied in one behaviour

----------------------------------------------------------------------------
(* The world outside the ledger: users, groups and their members *)

Users == {"A", "B", "C", "D", "E"}

Groups == {"G1", "G2", "G3"}

\* group ids a request may carry; "G0" is the id of no group
GroupIds == Groups \cup {"G0"}

Members(g) ==
    IF g = "G1" THEN {"A", "B", "C"}
    ELSE IF g = "G2" THEN {"A", "B"}
    ELSE IF g = "G3" THEN {"A", "B", "C", "D", "E"}
    ELSE {}

SPLIT_TYPE_EQUAL == "EQUAL"
SPLIT_TYPE_EXACT == "EXACT"
SPLIT_TYPE_PERCENTAGE == "PERCENTAGE"

----------------------------------------------------------------------------
(* Arithmetic helpers *)

\* a percentage is kept in hundredths of a percent, as an amount is in cents:
\* the 100 that the percentages of an expense add up to
HundredPercent == 10000

Min(a, b) == IF a < b THEN a ELSE b

Abs(a) == IF a < 0 THEN 0 - a ELSE a

\* round(num / den) to the nearest integer, for num >= 0 and den > 0; the
\* inputs of the model never make num / den an exact half
Round(num, den) == (2 * num + den) \div (2 * den)

RECURSIVE SumSeq(_)
SumSeq(s) == IF s = <<>> THEN 0 ELSE Head(s) + SumSeq(Tail(s))

RECURSIVE SumSet(_, _)
\* sum of f[x] over x in S
SumSet(f, S) ==
    IF S = {} THEN 0
    ELSE LET x == CHOOSE y \in S : TRUE IN f[x] + SumSet(f, S \ {x})

\* all orders in which the rows of a set can be returned
RECURSIVE Perms(_)
Perms(S) ==
    IF S = {} THEN {<<>>}
    ELSE UNION {{<<x>> \o p : p \in Perms(S \ {x})} : x \in S}

----------------------------------------------------------------------------
(* BalanceService *)

GetBalanceBetweenUsers(b, g, f, t) ==
    IF <<g, f, t>> \in DOMAIN b THEN b[<<g, f, t>>] ELSE 0

\* set_balance whose DELETE leaves out the condition on to_user_id
SetBalanceOfDebtor(b, g, f, t, amount) ==
    LET kept == {k \in DOMAIN b : ~(k[1] = g /\ k[2] = f)}
    IN  IF amount > 0
        THEN [k \in kept \cup {<<g, f, t>>} |-> IF k = <<g, f, t>> THEN amount ELSE b[k]]
        ELSE [k \in kept |-> b[k]]

\* set_balance without the test amount > 0
SetBalanceAlways(b, g, f, t, amount) ==
    [k \in DOMAIN b \cup {<<g, f, t>>} |-> IF k = <<g, f, t>> THEN amount ELSE b[k]]

SetBalance(b, g, f, t, amount) ==
    LET kept == DOMAIN b \ {<<g, f, t>>}
    IN  IF amount > 0
        THEN [k \in kept \cup {<<g, f, t>>} |-> IF k = <<g, f, t>> THEN amount ELSE b[k]]
        ELSE [k \in kept |-> b[k]]

\* update_balance without the netting against the reverse balance
UpdateBalanceNoNetting(b, g, f, t, amount) ==
    [k \in DOMAIN b \cup {<<g, f, t>>} |->
        IF k = <<g, f, t>>
        THEN (IF <<g, f, t>> \in DOMAIN b THEN b[<<g, f, t>>] ELSE 0) + amount
        ELSE b[k]]

\* update_balance that leaves the reverse balance in place when it is the smaller
UpdateBalanceKeepReverse(b, g, f, t, amount) ==
    LET reverse == GetBalanceBetweenUsers(b, g, t, f)
    IN  IF reverse > 0
        THEN IF reverse > amount THEN SetBalance(b, g, t, f, reverse - amount)
             ELSE IF reverse < amount THEN SetBalance(b, g, f, t, amount - reverse)
             ELSE SetBalance(b, g, t, f, 0)
        ELSE SetBalance(b, g, f, t, GetBalanceBetweenUsers(b, g, f, t) + amount)

UpdateBalance(b, g, f, t, amount) ==
    LET reverse == GetBalanceBetweenUsers(b, g, t, f)
    IN  IF reverse > 0
        THEN IF reverse > amount
             THEN SetBalance(b, g, t, f, reverse - amount)
             ELSE IF reverse < amount
                  THEN SetBalance(SetBalance(b, g, t, f, 0), g, f, t, amount - reverse)
                  ELSE SetBalance(b, g, t, f, 0)
        ELSE SetBalance(b, g, f, t, GetBalanceBetweenUsers(b, g, f, t) + amount)

\* the rows of a group with amount > 0 (the order of the rows is chosen by the caller)
GetGroupBalances(b, g) == {k \in DOMAIN b : k[1] = g /\ b[k] > 0}

\* clear_group_balances that deletes nothing
ClearNothing(b, g) == b

\* clear_group_balances without its WHERE group_id = ?
ClearAllBalances(b, g) == <<>>

ClearGroupBalances(b, g) ==
    [k \in {x \in DOMAIN b : x[1] # g} |-> b[k]]

----------------------------------------------------------------------------
(* Split calculator (expense_service.py) *)

\* x > 0.01 as binary floating point decides it for a difference x of two sums
\* of amounts (x in cents) or of percentages (x in hundredths of a percent):
\* TRUE above one unit, FALSE below, and at exactly one unit whatever the
\* rounding errors of the operands make of it (fp).  In Python
\* abs(20.0 - 20.01) > 0.01 and 33.34 > 33.33 + 0.01 are True, while
\* abs(0.02 - 0.01) > 0.01 and 50.01 > 50.0 + 0.01 are False.
ExceedsTolerance(x, fp) == x > 1 \/ (x = 1 /\ fp)

\* validate_expense: the errors found, in the order the code appends them
RECURSIVE NegativeErrors(_, _)
NegativeErrors(splitType, splits) ==
    IF splits = <<>> THEN <<>>
    ELSE LET s == Head(splits)
             e == IF \/ splitType = SPLIT_TYPE_EXACT /\ s.amount < 0
                     \/ splitType = SPLIT_TYPE_PERCENTAGE /\ s.percentage < 0
                  THEN <<"NegativeShare">> ELSE <<>>
         IN  e \o NegativeErrors(splitType, Tail(splits))

\* validate_expense without its loop over the splits
ValidateExpenseNoNegative(totalAmount, splitType, splits, fp) ==
    (IF totalAmount <= 0 THEN <<"NegativeOrZeroAmount">> ELSE <<>>)
    \o (IF Len(splits) = 0 THEN <<"EmptySplit">> ELSE <<>>)
    \o (IF /\ splitType = SPLIT_TYPE_EXACT
           /\ ExceedsTolerance(
                  Abs(SumSeq([i \in 1..Len(splits) |-> splits[i].amount]) - totalAmount), fp)
        THEN <<"SplitSumMismatch">> ELSE <<>>)
    \o (IF /\ splitType = SPLIT_TYPE_PERCENTAGE
           /\ ExceedsTolerance(
                  Abs(SumSeq([i \in 1..Len(splits) |-> splits[i].percentage]) - HundredPercent), fp)
        THEN <<"SplitSumMismatch">> ELSE <<>>)

ValidateExpense(totalAmount, splitType, splits, fp) ==
    (IF totalAmount <= 0 THEN <<"NegativeOrZeroAmount">> ELSE <<>>)
    \o (IF Len(splits) = 0 THEN <<"EmptySplit">> ELSE <<>>)
    \o (IF /\ splitType = SPLIT_TYPE_EXACT
           /\ ExceedsTolerance(
                  Abs(SumSeq([i \in 1..Len(splits) |-> splits[i].amount]) - totalAmount), fp)
        THEN <<"SplitSumMismatch">> ELSE <<>>)
    \o (IF /\ splitType = SPLIT_TYPE_PERCENTAGE
           /\ ExceedsTolerance(
                  Abs(SumSeq([i \in 1..Len(splits) |-> splits[i].percentage]) - HundredPercent), fp)
        THEN <<"SplitSumMismatch">> ELSE <<>>)
    \o NegativeErrors(splitType, splits)

\* calculate_splits: the share of every participant, or "UnknownSplitType"
CalculateSplits(totalAmount, splitType, splits) ==
    IF splitType = SPLIT_TYPE_EQUAL
    THEN [i \in 1..Len(splits) |->
            [userId |-> splits[i].userId, amount |-> Round(totalAmount, Len(splits))]]
    ELSE IF splitType = SPLIT_TYPE_EXACT
    THEN [i \in 1..Len(splits) |->
            [userId |-> splits[i].userId, amount |-> splits[i].amount]]
    ELSE IF splitType = SPLIT_TYPE_PERCENTAGE
    THEN [i \in 1..Len(splits) |->
            [userId |-> splits[i].userId,
             amount |-> Round(splits[i].percentage * totalAmount, HundredPercent)]]
    ELSE "UnknownSplitType"

\* the balance updates of an expense: one (debtor, amount) per share that is
\* not the payer's, in the order of the shares
\* the balance updates without the test split['userId'] != paid_by
BalanceUpdatesWithPayer(calculated, paidBy) == calculated

BalanceUpdates(calculated, paidBy) ==
    SelectSeq(calculated, LAMBDA s : s.userId # paidBy)

\* the loop over the balance updates left after its first iteration
ApplyUpdatesFirstOnly(b, g, paidBy, updates) ==
    IF updates = <<>> THEN b
    ELSE UpdateBalance(b, g, Head(updates).userId, paidBy, Head(updates).amount)

RECURSIVE ApplyUpdates(_, _, _, _)
ApplyUpdates(b, g, paidBy, updates) ==
    IF updates = <<>> THEN b
    ELSE ApplyUpdates(UpdateBalance(b, g, Head(updates).userId, paidBy, Head(updates).amount),
                      g, paidBy, Tail(updates))

\* the rows of expense_splits written for an expense: the calculated amount and,
\* for PERCENTAGE, the percentage of the first declaration of the same user
StoredPercentage(splitType, splits, userId) ==
    IF splitType = SPLIT_TYPE_PERCENTAGE
    THEN LET i == CHOOSE j \in 1..Len(splits) :
                     /\ splits[j].userId = userId
                     /\ \A k \in 1..(j - 1) : splits[k].userId # userId
         IN  splits[i].percentage
    ELSE 0

StoredSplits(splitType, splits, calculated) ==
    [i \in 1..Len(calculated) |->
        [userId |-> calculated[i].userId,
         amount |-> calculated[i].amount,
         percentage |-> StoredPercentage(splitType, splits, calculated[i].userId)]]

----------------------------------------------------------------------------
(* Net positions and the debt simplifier (balance_service.py) *)

\* the net balance of a user as record_settlement computes it from the rows of
\* the group: minus the amount of a row the user owes, else plus the amount of
\* a row owed to the user
UserNet(b, g, u) ==
    LET rows == GetGroupBalances(b, g)
        term == [k \in rows |-> IF k[2] = u THEN 0 - b[k]
                                ELSE IF k[3] = u THEN b[k] ELSE 0]
    IN  SumSet(term, rows)

\* the users of the rows in the order get_simplified_balances first meets them
RECURSIVE EncounterOrder(_, _)
EncounterOrder(rows, seen) ==
    IF rows = <<>> THEN seen
    ELSE LET f  == Head(rows)[2]
             t  == Head(rows)[3]
             s1 == IF \E i \in 1..Len(seen) : seen[i] = f THEN seen ELSE Append(seen, f)
             s2 == IF \E i \in 1..Len(s1) : s1[i] = t THEN s1 ELSE Append(s1, t)
         IN  EncounterOrder(Tail(rows), s2)

\* net[user] of get_simplified_balances
SimplifierNet(b, rows, u) ==
    SumSeq([i \in 1..Len(rows) |->
              (IF rows[i][2] = u THEN 0 - b[rows[i]] ELSE 0)
            + (IF rows[i][3] = u THEN b[rows[i]] ELSE 0)])

\* list.sort(key = magnitude, reverse = True): stable, descending
RECURSIVE InsertDesc(_, _)
InsertDesc(sorted, x) ==
    IF sorted = <<>> THEN <<x>>
    ELSE IF Head(sorted).amount >= x.amount
         THEN <<Head(sorted)>> \o InsertDesc(Tail(sorted), x)
         ELSE <<x>> \o sorted

\* the lists left in the order the users were met
SortNot(s) == s

RECURSIVE SortDesc(_)
SortDesc(s) ==
    IF s = <<>> THEN <<>>
    ELSE InsertDesc(SortDesc(SubSeq(s, 1, Len(s) - 1)), s[Len(s)])

\* the two-pointer loop that moves the creditor pointer only when the debtor
\* pointer stays
RECURSIVE GreedyMatchOnePointer(_, _, _, _, _)
GreedyMatchOnePointer(debtors, creditors, i, j, simplified) ==
    IF ~(i <= Len(debtors) /\ j <= Len(creditors)) THEN simplified
    ELSE LET amount == Min(debtors[i].amount, creditors[j].amount)
             d2 == [debtors EXCEPT ![i].amount = @ - amount]
             c2 == [creditors EXCEPT ![j].amount = @ - amount]
         IN  GreedyMatchOnePointer(d2, c2,
                         IF d2[i].amount < 1 THEN i + 1 ELSE i,
                         IF d2[i].amount >= 1 /\ c2[j].amount < 1 THEN j + 1 ELSE j,
                         Append(simplified,
                                [fromUserId |-> debtors[i].user,
                                 toUserId |-> creditors[j].user,
                                 amount |-> amount]))

\* the two-pointer loop
RECURSIVE GreedyMatch(_, _, _, _, _)
GreedyMatch(debtors, creditors, i, j, simplified) ==
    IF ~(i <= Len(debtors) /\ j <= Len(creditors)) THEN simplified
    ELSE LET amount == Min(debtors[i].amount, creditors[j].amount)
             d2 == [debtors EXCEPT ![i].amount = @ - amount]
             c2 == [creditors EXCEPT ![j].amount = @ - amount]
         IN  GreedyMatch(d2, c2,
                         IF d2[i].amount < 1 THEN i + 1 ELSE i,
                         IF c2[j].amount < 1 THEN j + 1 ELSE j,
                         Append(simplified,
                                [fromUserId |-> debtors[i].user,
                                 toUserId |-> creditors[j].user,
                                 amount |-> amount]))

\* get_simplified_balances over the rows of the group as the query returned them
GetSimplifiedBalances(b, rows) ==
    LET order == EncounterOrder(rows, <<>>)
        nets  == [i \in 1..Len(order) |->
                    [user |-> order[i], net |-> SimplifierNet(b, rows, order[i])]]
        deb   == SelectSeq(nets, LAMBDA n : n.net < 0 - 1)
        cred  == SelectSeq(nets, LAMBDA n : n.net > 1)
        debtors   == SortDesc([i \in 1..Len(deb) |->
                                 [user |-> deb[i].user, amount |-> 0 - deb[i].net]])
        creditors == SortDesc([i \in 1..Len(cred) |->
                                 [user |-> cred[i].user, amount |-> cred[i].net]])
    IN  GreedyMatch(debtors, creditors, 1, 1, <<>>)

----------------------------------------------------------------------------
(* Settlements (settlement_service.py, balance_service.py) *)

\* one loop of apply_smart_settlement: list holds the rows to reduce, snap the
\* amounts read at the start of apply_smart_settlement
RECURSIVE ReduceInOrder(_, _, _, _)
ReduceInOrder(b, snap, list, remaining) ==
    IF list = <<>> \/ remaining <= 0 THEN b
    ELSE LET k == Head(list)
             reduction == Min(snap[k], remaining)
         IN  ReduceInOrder(SetBalance(b, k[1], k[2], k[3], snap[k] - reduction),
                           snap, Tail(list), remaining - reduction)

\* apply_smart_settlement that reads the balances again before its second loop
ApplySmartSettlementReread(b, rows, payer, recipient, amount) ==
    LET payerDebts       == SelectSeq(rows, LAMBDA k : k[2] = payer)
        afterPayer       == ReduceInOrder(b, b, payerDebts, amount)
        recipientCredits == SelectSeq(rows, LAMBDA k : k[3] = recipient /\ k \in DOMAIN afterPayer)
    IN  ReduceInOrder(afterPayer, afterPayer, recipientCredits, amount)

\* a settlement applied as a transfer from the recipient to the payer
ApplySmartSettlementAsTransfer(b, rows, payer, recipient, amount) ==
    IF rows = <<>> THEN b
    ELSE UpdateBalance(b, rows[1][1], recipient, payer, amount)

ApplySmartSettlement(b, rows, payer, recipient, amount) ==
    LET payerDebts       == SelectSeq(rows, LAMBDA k : k[2] = payer)
        recipientCredits == SelectSeq(rows, LAMBDA k : k[3] = recipient)
        afterPayer       == ReduceInOrder(b, b, payerDebts, amount)
    IN  ReduceInOrder(afterPayer, b, recipientCredits, amount)

\* the checks of record_settlement without the limit on the amount
SettlementResultNoLimit(b, g, from, to, amount, fp) ==
    IF g \notin Groups THEN "GroupNotFound"
    ELSE IF from \notin Members(g) \/ to \notin Members(g) THEN "NotAMember"
    ELSE IF amount <= 0 THEN "NonPositiveAmount"
    ELSE IF UserNet(b, g, from) >= 0 THEN "PayerNotInDebt"
    ELSE IF UserNet(b, g, to) <= 0 THEN "RecipientNotOwed"
    ELSE "ok"

\* the checks of record_settlement without the test that the recipient is owed
SettlementResultNoRecipientCheck(b, g, from, to, amount, fp) ==
    IF g \notin Groups THEN "GroupNotFound"
    ELSE IF from \notin Members(g) \/ to \notin Members(g) THEN "NotAMember"
    ELSE IF amount <= 0 THEN "NonPositiveAmount"
    ELSE IF UserNet(b, g, from) >= 0 THEN "PayerNotInDebt"
    ELSE IF ExceedsTolerance(
                amount - Min(Abs(UserNet(b, g, from)), Abs(UserNet(b, g, to))), fp)
         THEN "SettlementExceedsBalance"
    ELSE "ok"

\* the outcome of the checks of record_settlement, in the order the code makes them
SettlementResult(b, g, from, to, amount, fp) ==
    IF g \notin Groups THEN "GroupNotFound"
    ELSE IF from \notin Members(g) \/ to \notin Members(g) THEN "NotAMember"
    ELSE IF amount <= 0 THEN "NonPositiveAmount"
    ELSE IF UserNet(b, g, from) >= 0 THEN "PayerNotInDebt"
    ELSE IF UserNet(b, g, to) <= 0 THEN "RecipientNotOwed"
    ELSE IF ExceedsTolerance(
                amount - Min(Abs(UserNet(b, g, from)), Abs(UserNet(b, g, to))), fp)
         THEN "SettlementExceedsBalance"
    ELSE "ok"

----------------------------------------------------------------------------
(* Recalculation (expense_service.py) *)

\* get_group_expenses without its WHERE group_id = ?
RECURSIVE GetGroupExpensesOfAll(_, _)
GetGroupExpensesOfAll(exps, g) ==
    IF exps = <<>> THEN <<>>
    ELSE <<exps[Len(exps)]>> \o GetGroupExpensesOfAll(SubSeq(exps, 1, Len(exps) - 1), g)

\* get_group_expenses: the expenses of the group, newest first
RECURSIVE GetGroupExpenses(_, _)
GetGroupExpenses(exps, g) ==
    IF exps = <<>> THEN <<>>
    ELSE LET rest == GetGroupExpenses(SubSeq(exps, 1, Len(exps) - 1), g)
             e    == exps[Len(exps)]
         IN  IF e.groupId = g THEN <<e>> \o rest ELSE rest

\* the replay of the expenses that stops after the newest one
ReplayExpensesNewestOnly(b, g, exps) ==
    IF exps = <<>> THEN b
    ELSE LET e == Head(exps)
             calculated == CalculateSplits(e.totalAmount, e.splitType, e.splits)
         IN  ApplyUpdates(b, g, e.paidBy, BalanceUpdates(calculated, e.paidBy))

RECURSIVE ReplayExpenses(_, _, _)
ReplayExpenses(b, g, exps) ==
    IF exps = <<>> THEN b
    ELSE LET e == Head(exps)
             calculated == CalculateSplits(e.totalAmount, e.splitType, e.splits)
         IN  ReplayExpenses(
                 ApplyUpdates(b, g, e.paidBy, BalanceUpdates(calculated, e.paidBy)),
                 g, Tail(exps))

\* the replay of the settlements that subtracts every amount whole, whatever
\* the balance
RECURSIVE ReplaySettlementsWhole(_, _, _)
ReplaySettlementsWhole(b, g, setts) ==
    IF setts = <<>> THEN b
    ELSE LET s == Head(setts)
             b2 == IF s.groupId = g
                   THEN UpdateBalance(b, s.groupId, s.fromUserId, s.toUserId, 0 - s.amount)
                   ELSE b
         IN  ReplaySettlementsWhole(b2, g, Tail(setts))

RECURSIVE ReplaySettlements(_, _, _)
ReplaySettlements(b, g, setts) ==
    IF setts = <<>> THEN b
    ELSE LET s == Head(setts)
             current == GetBalanceBetweenUsers(b, s.groupId, s.fromUserId, s.toUserId)
             b2 == IF s.groupId = g /\ current > 0
                   THEN UpdateBalance(b, s.groupId, s.fromUserId, s.toUserId,
                                      0 - Min(s.amount, current))
                   ELSE b
         IN  ReplaySettlements(b2, g, Tail(setts))

RecalculateGroupBalances(b, g, exps, setts) ==
    ReplaySettlements(
        ReplayExpenses(ClearGroupBalances(b, g), g, GetGroupExpenses(exps, g)),
        g, setts)

----------------------------------------------------------------------------
(* Requests: the inputs the model offers to the handlers *)

\* the kinds of expense a request declares: a total and how it is split
ExpenseForms ==
    {[totalAmount |-> 10000, splitType |-> SPLIT_TYPE_EQUAL],
     [totalAmount |-> 9000,  splitType |-> SPLIT_TYPE_EQUAL],
     [totalAmount |-> 2,     splitType |-> SPLIT_TYPE_EQUAL],
     [totalAmount |-> 2000,  splitType |-> SPLIT_TYPE_EXACT],
     [totalAmount |-> 10000, splitType |-> SPLIT_TYPE_PERCENTAGE]}

ExactAmounts == {0, 2000}

Percentages == {HundredPercent \div 2, HundredPercent}

SettlementAmounts == {2000, 5000}

UserOrder == <<"A", "B", "C", "D", "E">>

\* the participants of a request: two or more of the users A, B and C, in a fixed order
ParticipantLists ==
    {SelectSeq(UserOrder, LAMBDA u : u \in S) :
        S \in {T \in SUBSET {"A", "B", "C"} : Cardinality(T) >= 2}}

\* the splits a request can declare for the participants of the lists
SplitDeclarations(splitType, lists) ==
    IF splitType = SPLIT_TYPE_EXACT
    THEN UNION {{[i \in 1..Len(L) |-> [userId |-> L[i], amount |-> a[i], percentage |-> 0]] :
                    a \in [1..Len(L) -> ExactAmounts]} : L \in lists}
    ELSE IF splitType = SPLIT_TYPE_PERCENTAGE
    THEN UNION {{[i \in 1..Len(L) |-> [userId |-> L[i], amount |-> 0, percentage |-> p[i]]] :
                    p \in [1..Len(L) -> Percentages]} : L \in lists}
    ELSE {[i \in 1..Len(L) |-> [userId |-> L[i], amount |-> 0, percentage |-> 0]] :
             L \in lists}

SplitTypes == {SPLIT_TYPE_EQUAL, SPLIT_TYPE_EXACT, SPLIT_TYPE_PERCENTAGE}

\* the workers that serve requests at the same time
Workers == {"w1", "w2"}

\* a worker that serves no request
\* (stale records that another worker has written a balance since this call
\* read one: a note about the run, not a value of the program)
NoCall == [pc |-> "idle", groupId |-> "-", paidBy |-> "-", updates |-> <<>>,
           reverse |-> 0, current |-> 0, stale |-> FALSE]

NoRequest ==
    [op |-> "none", groupId |-> "-", userId |-> "-", toUserId |-> "-", amount |-> 0,
     splitType |-> "-", splits |-> <<>>, expenseId |-> 0, res |-> "-", rows |-> {},
     out |-> <<>>, errors |-> <<>>, remainingBalance |-> 0,
     owes |-> {}, owed |-> {}, netBalance |-> 0]

----------------------------------------------------------------------------
(* ExpenseService.add_expense *)

\* the checks of add_expense without validate_group_members
AddExpenseResultNoMemberCheck(g, paidBy, totalAmount, splitType, splits, fp) ==
    IF g \notin Groups THEN "GroupNotFound"
    ELSE IF paidBy \notin Members(g) THEN "PayerNotAMember"
    ELSE IF ValidateExpense(totalAmount, splitType, splits, fp) # <<>>
         THEN Head(ValidateExpense(totalAmount, splitType, splits, fp))
    ELSE IF splitType \notin SplitTypes THEN "UnknownSplitType"
    ELSE "ok"

\* the outcome of the checks of add_expense, in the order the code makes them
AddExpenseResult(g, paidBy, totalAmount, splitType, splits, fp) ==
    IF g \notin Groups THEN "GroupNotFound"
    ELSE IF paidBy \notin Members(g) THEN "PayerNotAMember"
    ELSE IF \E i \in 1..Len(splits) : splits[i].userId \notin Members(g)
         THEN "NonMemberParticipant"
    ELSE IF ValidateExpense(totalAmount, splitType, splits, fp) # <<>>
         THEN Head(ValidateExpense(totalAmount, splitType, splits, fp))
    ELSE IF splitType \notin SplitTypes THEN "UnknownSplitType"
    ELSE "ok"

AddExpense(g, paidBy, totalAmount, splitType, splits) ==
    /\ "ok" \in {AddExpenseResult(g, paidBy, totalAmount, splitType, splits, fp) :
                    fp \in BOOLEAN}
    /\ LET calculated == CalculateSplits(totalAmount, splitType, splits)
       IN  /\ expenses' = Append(expenses,
                  [id |-> nextId + 1, groupId |-> g, totalAmount |-> totalAmount,
                   paidBy |-> paidBy, splitType |-> splitType,
                   splits |-> StoredSplits(splitType, splits, calculated)])
           /\ balances' = ApplyUpdates(balances, g, paidBy, BalanceUpdates(calculated, paidBy))
    /\ nextId' = nextId + 1
    /\ last' = [NoRequest EXCEPT !.op = "addExpense", !.groupId = g, !.userId = paidBy,
                                 !.amount = totalAmount, !.splitType = splitType,
                                 !.splits = splits, !.expenseId = nextId + 1, !.res = "ok"]
    /\ UNCHANGED settlements

----------------------------------------------------------------------------
(* SettlementService.record_settlement *)

RecordSettlement(g, from, to, amount) ==
    /\ "ok" \in {SettlementResult(balances, g, from, to, amount, fp) : fp \in BOOLEAN}
    /\ \E rows \in Perms(GetGroupBalances(balances, g)) :
          balances' = ApplySmartSettlement(balances, rows, from, to, amount)
    /\ settlements' = Append(settlements,
           [groupId |-> g, fromUserId |-> from, toUserId |-> to, amount |-> amount])
    /\ last' = [NoRequest EXCEPT !.op = "recordSettlement", !.groupId = g, !.userId = from,
                                 !.toUserId = to, !.amount = amount, !.res = "ok",
                                 !.remainingBalance = UserNet(balances', g, from)]
    /\ UNCHANGED <<expenses, nextId>>

----------------------------------------------------------------------------
(* ExpenseService.delete_expense and recalculate_group_balances *)

\* delete_expense without its call of recalculate_group_balances
DeleteExpenseNoRecalculate(expenseId) ==
    /\ \E i \in 1..Len(expenses) : expenses[i].id = expenseId
    /\ LET i == CHOOSE j \in 1..Len(expenses) : expenses[j].id = expenseId
       IN  /\ expenses' = SubSeq(expenses, 1, i - 1) \o SubSeq(expenses, i + 1, Len(expenses))
           /\ last' = [NoRequest EXCEPT !.op = "deleteExpense",
                                        !.groupId = expenses[i].groupId,
                                        !.expenseId = expenseId, !.res = "ok"]
    /\ UNCHANGED <<balances, settlements, nextId>>

DeleteExpense(expenseId) ==
    /\ \E i \in 1..Len(expenses) : expenses[i].id = expenseId
    /\ LET i == CHOOSE j \in 1..Len(expenses) : expenses[j].id = expenseId
           g == expenses[i].groupId
           kept == SubSeq(expenses, 1, i - 1) \o SubSeq(expenses, i + 1, Len(expenses))
       IN  /\ expenses' = kept
           /\ balances' = RecalculateGroupBalances(balances, g, kept, settlements)
           /\ last' = [NoRequest EXCEPT !.op = "deleteExpense", !.groupId = g,
                                        !.expenseId = expenseId, !.res = "ok"]
    /\ UNCHANGED <<settlements, nextId>>

Recalculate(g) ==
    /\ g \in Groups
    /\ balances' = RecalculateGroupBalances(balances, g, expenses, settlements)
    /\ last' = [NoRequest EXCEPT !.op = "recalculate", !.groupId = g, !.res = "ok"]
    /\ UNCHANGED <<expenses, settlements, nextId>>

----------------------------------------------------------------------------
(* Queries (routes/group_routes.py): they answer from the ledger and write nothing *)

\* the rows of the response of get_group_balances (without their order)
BalanceRows(b, g) ==
    {[fromUserId |-> k[2], toUserId |-> k[3], amount |-> b[k]] : k \in GetGroupBalances(b, g)}

GetGroupBalancesQuery(g) ==
    /\ g \in Groups
    /\ last' = [NoRequest EXCEPT !.op = "getGroupBalances", !.groupId = g, !.res = "ok",
                                 !.rows = BalanceRows(balances, g)]
    /\ UNCHANGED <<balances, expenses, settlements, nextId>>

\* get_simplified_balances that stores its transactions as the balances of the group
GetSimplifiedBalancesStored(g) ==
    /\ g \in Groups
    /\ \E rows \in Perms(GetGroupBalances(balances, g)) :
          LET out == GetSimplifiedBalances(balances, rows)
          IN  /\ last' = [NoRequest EXCEPT !.op = "getSimplifiedBalances", !.groupId = g,
                                           !.res = "ok", !.out = out]
              /\ balances' = [k \in {<<g, out[i].fromUserId, out[i].toUserId>> :
                                        i \in 1..Len(out)} |->
                                 LET i == CHOOSE j \in 1..Len(out) :
                                            <<g, out[j].fromUserId, out[j].toUserId>> = k
                                 IN  out[i].amount]
    /\ UNCHANGED <<expenses, settlements, nextId>>

GetSimplifiedBalancesQuery(g) ==
    /\ g \in Groups
    /\ \E rows \in Perms(GetGroupBalances(balances, g)) :
          last' = [NoRequest EXCEPT !.op = "getSimplifiedBalances", !.groupId = g, !.res = "ok",
                                    !.out = GetSimplifiedBalances(balances, rows)]
    /\ UNCHANGED <<balances, expenses, settlements, nextId>>

\* get_user_balances: the rows of every group the user owes or is owed
UserBalanceRows(b, u) ==
    {[groupId |-> k[1], fromUserId |-> k[2], toUserId |-> k[3], amount |-> b[k]] :
        k \in {x \in DOMAIN b : x[2] = u \/ x[3] = u}}

GetUserBalancesQuery(u) ==
    /\ u \in Users
    /\ LET rows == UserBalanceRows(balances, u)
           owes == {r \in rows : r.fromUserId = u}
           owed == {r \in rows : r.toUserId = u}
       IN  last' = [NoRequest EXCEPT
                       !.op = "getUserBalances", !.userId = u, !.res = "ok",
                       !.owes = owes, !.owed = owed,
                       !.netBalance = SumSet([r \in owed |-> r.amount], owed)
                                      - SumSet([r \in owes |-> r.amount], owes)]
    /\ UNCHANGED <<balances, expenses, settlements, nextId>>

----------------------------------------------------------------------------
(* The ledger served one request at a time *)

Init ==
    /\ balances = <<>>
    /\ expenses = <<>>
    /\ settlements = <<>>
    /\ nextId = 0
    /\ last = NoRequest
    /\ calls = [w \in Workers |-> NoCall]

AddExpenseStep ==
    /\ nextId < MaxExpenses
    /\ \E g \in {"G1", "G2"}, paidBy \in {"A", "B", "C"}, form \in ExpenseForms :
          \E splits \in SplitDeclarations(form.splitType, ParticipantLists) :
            /\ \E i \in 1..Len(splits) : splits[i].userId = paidBy
            /\ AddExpense(g, paidBy, form.totalAmount, form.splitType, splits)
    /\ UNCHANGED calls

RecordSettlementStep ==
    /\ Len(settlements) < MaxSettlements
    /\ \E g \in {"G1", "G2"}, from \in {"A", "B", "C"}, to \in {"A", "B", "C"},
          amount \in SettlementAmounts :
          RecordSettlement(g, from, to, amount)
    /\ UNCHANGED calls

DeleteExpenseStep ==
    /\ \E expenseId \in 1..MaxExpenses : DeleteExpense(expenseId)
    /\ UNCHANGED calls

RecalculateStep ==
    /\ \E g \in {"G1", "G2"} : Recalculate(g)
    /\ UNCHANGED calls

Next ==
    \/ AddExpenseStep
    \/ RecordSettlementStep
    \/ DeleteExpenseStep
    \/ RecalculateStep

Spec == Init /\ [][Next]_vars

----------------------------------------------------------------------------
(* The ledger of the group of five with its queries *)

QueryForms ==
    {[totalAmount |-> 10000, splitType |-> SPLIT_TYPE_EQUAL],
     [totalAmount |-> 9000,  splitType |-> SPLIT_TYPE_EQUAL],
     [totalAmount |-> 2,     splitType |-> SPLIT_TYPE_EQUAL]}

QueryParticipantLists == {<<"A", "B">>, <<"A", "B", "C">>, <<"D", "E">>}

AddExpenseInGroupStep ==
    /\ nextId < MaxExpenses
    /\ \E paidBy \in Users, form \in QueryForms :
          \E splits \in SplitDeclarations(form.splitType, QueryParticipantLists) :
            /\ \E i \in 1..Len(splits) : splits[i].userId = paidBy
            /\ AddExpense("G3", paidBy, form.totalAmount, form.splitType, splits)
    /\ UNCHANGED calls

RecordSettlementInGroupStep ==
    /\ Len(settlements) < MaxSettlements
    /\ \E from \in Users, to \in Users, amount \in SettlementAmounts :
          RecordSettlement("G3", from, to, amount)
    /\ UNCHANGED calls

GetGroupBalancesStep ==
    /\ GetGroupBalancesQuery("G3")
    /\ UNCHANGED calls

GetSimplifiedBalancesStep ==
    /\ GetSimplifiedBalancesQuery("G3")
    /\ UNCHANGED calls

GetUserBalancesStep ==
    /\ \E u \in Users : GetUserBalancesQuery(u)
    /\ UNCHANGED calls

QueryNext ==
    \/ AddExpenseInGroupStep
    \/ RecordSettlementInGroupStep
    \/ DeleteExpenseStep
    \/ GetGroupBalancesStep
    \/ GetSimplifiedBalancesStep
    \/ GetUserBalancesStep

QuerySpec == Init /\ [][QueryNext]_vars

----------------------------------------------------------------------------
(* The routes with the requests they reject: a request is served whole, its *)
(* checks first and its writes only when every check has passed             *)

\* add_expense: the checks of lines 79-95 raise before the first INSERT
AddExpenseRequest(g, paidBy, totalAmount, splitType, splits) ==
    \E res \in {AddExpenseResult(g, paidBy, totalAmount, splitType, splits, fp) :
                    fp \in BOOLEAN} :
            IF res = "ok"
            THEN AddExpense(g, paidBy, totalAmount, splitType, splits)
            ELSE /\ last' = [NoRequest EXCEPT !.op = "addExpense", !.groupId = g,
                                              !.userId = paidBy, !.amount = totalAmount,
                                              !.splitType = splitType, !.splits = splits,
                                              !.res = res]
                 /\ UNCHANGED <<balances, expenses, settlements, nextId>>

\* record_settlement: the checks of lines 43-91 raise before the INSERT
RecordSettlementRequest(g, from, to, amount) ==
    \E res \in {SettlementResult(balances, g, from, to, amount, fp) : fp \in BOOLEAN} :
            IF res = "ok"
            THEN RecordSettlement(g, from, to, amount)
            ELSE /\ last' = [NoRequest EXCEPT !.op = "recordSettlement", !.groupId = g,
                                              !.userId = from, !.toUserId = to,
                                              !.amount = amount, !.res = res]
                 /\ UNCHANGED <<balances, expenses, settlements, nextId>>

\* delete_expense: returns False when get_expense finds no expense of the id
DeleteExpenseRequest(expenseId) ==
    IF \E i \in 1..Len(expenses) : expenses[i].id = expenseId
    THEN DeleteExpense(expenseId)
    ELSE /\ last' = [NoRequest EXCEPT !.op = "deleteExpense", !.expenseId = expenseId,
                                      !.res = "ExpenseNotFound"]
         /\ UNCHANGED <<balances, expenses, settlements, nextId>>

Split(userId, amount, percentage) ==
    [userId |-> userId, amount |-> amount, percentage |-> percentage]

\* the declarations of the requests: valid ones, one for every error of
\* validate_expense and calculate_splits, and sums at and beyond the tolerance
RequestDeclarations ==
    {[totalAmount |-> 10000, splitType |-> SPLIT_TYPE_EQUAL,
      splits |-> <<Split("A", 0, 0), Split("B", 0, 0), Split("C", 0, 0)>>],
     [totalAmount |-> 10000, splitType |-> SPLIT_TYPE_EQUAL,
      splits |-> <<Split("A", 0, 0), Split("B", 0, 0)>>],
     [totalAmount |-> 10000, splitType |-> SPLIT_TYPE_EQUAL,
      splits |-> <<Split("A", 0, 0), Split("D", 0, 0)>>],
     [totalAmount |-> 0, splitType |-> SPLIT_TYPE_EQUAL,
      splits |-> <<Split("A", 0, 0), Split("B", 0, 0)>>],
     [totalAmount |-> 10000, splitType |-> SPLIT_TYPE_EQUAL, splits |-> <<>>],
     [totalAmount |-> 10000, splitType |-> "SHARES",
      splits |-> <<Split("A", 0, 0), Split("B", 0, 0)>>],
     [totalAmount |-> 2000, splitType |-> SPLIT_TYPE_EXACT,
      splits |-> <<Split("A", 0, 0), Split("B", 2000, 0)>>],
     [totalAmount |-> 2001, splitType |-> SPLIT_TYPE_EXACT,
      splits |-> <<Split("A", 0, 0), Split("B", 2000, 0)>>],
     [totalAmount |-> 2002, splitType |-> SPLIT_TYPE_EXACT,
      splits |-> <<Split("A", 0, 0), Split("B", 2000, 0)>>],
     [totalAmount |-> 2000, splitType |-> SPLIT_TYPE_EXACT,
      splits |-> <<Split("A", 0 - 500, 0), Split("B", 2500, 0)>>],
     [totalAmount |-> 10000, splitType |-> SPLIT_TYPE_PERCENTAGE,
      splits |-> <<Split("A", 0, 5000), Split("B", 0, 5001)>>],
     [totalAmount |-> 10000, splitType |-> SPLIT_TYPE_PERCENTAGE,
      splits |-> <<Split("A", 0, 5000), Split("B", 0, 5002)>>],
     [totalAmount |-> 10000, splitType |-> SPLIT_TYPE_PERCENTAGE,
      splits |-> <<Split("A", 0, 0 - 1000), Split("B", 0, 11000)>>]}

RequestAmounts == {0, 2000, 3334, 5002}

AddExpenseRequestStep ==
    /\ nextId < MaxExpenses
    /\ \E g \in {"G1", "G0"}, paidBy \in {"A", "B", "D"}, d \in RequestDeclarations :
          AddExpenseRequest(g, paidBy, d.totalAmount, d.splitType, d.splits)
    /\ UNCHANGED calls

RecordSettlementRequestStep ==
    /\ Len(settlements) < MaxSettlements
    /\ \E g \in {"G1", "G0"}, from \in {"A", "B", "D"}, to \in {"A", "B", "D"},
          amount \in RequestAmounts :
          RecordSettlementRequest(g, from, to, amount)
    /\ UNCHANGED calls

DeleteExpenseRequestStep ==
    /\ \E expenseId \in 1..(MaxExpenses + 1) : DeleteExpenseRequest(expenseId)
    /\ UNCHANGED calls

RequestNext ==
    \/ AddExpenseRequestStep
    \/ RecordSettlementRequestStep
    \/ DeleteExpenseRequestStep

RequestSpec == Init /\ [][RequestNext]_vars

----------------------------------------------------------------------------
(* The split calculator on its own: validate_expense, then calculate_splits *)
(* when the declaration is valid, as add_expense calls them                 *)

SplitTotals == {0, 2000, 10000, 100000}

SplitAmounts == {0 - 500, 0, 1000, 1001, 2000}

SplitPercentages == {0 - 1000, 0, 5000, 5001, 10000}

SplitParticipantLists == {<<>>, <<"A">>, <<"A", "B">>, <<"A", "B", "C">>}

\* the declarations given to the calculator
Declarations(splitType) ==
    IF splitType = SPLIT_TYPE_EXACT
    THEN UNION {{[i \in 1..Len(L) |-> Split(L[i], a[i], 0)] :
                    a \in [1..Len(L) -> SplitAmounts]} : L \in SplitParticipantLists}
    ELSE IF splitType = SPLIT_TYPE_PERCENTAGE
    THEN UNION {{[i \in 1..Len(L) |-> Split(L[i], 0, p[i])] :
                    p \in [1..Len(L) -> SplitPercentages]} : L \in SplitParticipantLists}
    ELSE {[i \in 1..Len(L) |-> Split(L[i], 0, 0)] : L \in SplitParticipantLists}

SplitInit ==
    /\ balances = <<>>
    /\ expenses = <<>>
    /\ settlements = <<>>
    /\ nextId = 0
    /\ calls = [w \in Workers |-> NoCall]
    /\ \E totalAmount \in SplitTotals, splitType \in SplitTypes \cup {"SHARES"} :
          \E splits \in Declarations(splitType) :
            last = [NoRequest EXCEPT !.op = "declaration", !.amount = totalAmount,
                                     !.splitType = splitType, !.splits = splits]

ValidateExpenseStep ==
    /\ last.op = "declaration"
    /\ \E errors \in {ValidateExpense(last.amount, last.splitType, last.splits, fp) :
                        fp \in BOOLEAN} :
          last' = [last EXCEPT !.op = "validateExpense", !.errors = errors,
                               !.res = IF errors = <<>> THEN "ok" ELSE "ValidationFailed"]
    /\ UNCHANGED <<balances, expenses, settlements, nextId, calls>>

CalculateSplitsStep ==
    /\ last.op = "validateExpense"
    /\ last.res = "ok"
    /\ last' = IF last.splitType \in SplitTypes
               THEN [last EXCEPT !.op = "calculateSplits",
                        !.out = CalculateSplits(last.amount, last.splitType, last.splits)]
               ELSE [last EXCEPT !.op = "calculateSplits",
                        !.res = CalculateSplits(last.amount, last.splitType, last.splits)]
    /\ UNCHANGED <<balances, expenses, settlements, nextId, calls>>

SplitNext ==
    \/ ValidateExpenseStep
    \/ CalculateSplitsStep

SplitSpec == SplitInit /\ [][SplitNext]_vars

----------------------------------------------------------------------------
(* add_expense served by several workers at once: the expense and its       *)
(* splits are committed first, then update_balance runs for every balance   *)
(* update, each of its SELECTs and each set_balance a transaction of its    *)
(* own, with nothing that keeps two calls apart                             *)

\* the call after one update_balance has returned
Finish(c) ==
    IF Tail(c.updates) = <<>> THEN NoCall
    ELSE [c EXCEPT !.pc = "readReverse", !.updates = Tail(c.updates),
                   !.reverse = 0, !.current = 0, !.stale = FALSE]

\* the calls after worker w has written a balance and come to c: what the
\* other workers have read is now out of date
AfterWrite(w, c) ==
    [v \in Workers |->
        IF v = w THEN c
        ELSE IF calls[v].pc \in {"idle", "readReverse"} THEN calls[v]
        ELSE [calls[v] EXCEPT !.stale = TRUE]]

\* add_expense up to conn.commit(): checks, expense and splits
BeginAddExpense(w, g, paidBy, totalAmount, splitType, splits) ==
    /\ calls[w].pc = "idle"
    /\ "ok" \in {AddExpenseResult(g, paidBy, totalAmount, splitType, splits, fp) :
                    fp \in BOOLEAN}
    /\ LET calculated == CalculateSplits(totalAmount, splitType, splits)
            updates    == BalanceUpdates(calculated, paidBy)
       IN  /\ expenses' = Append(expenses,
                  [id |-> nextId + 1, groupId |-> g, totalAmount |-> totalAmount,
                   paidBy |-> paidBy, splitType |-> splitType,
                   splits |-> StoredSplits(splitType, splits, calculated)])
           /\ calls' = [calls EXCEPT ![w] =
                  IF updates = <<>> THEN NoCall
                  ELSE [pc |-> "readReverse", groupId |-> g, paidBy |-> paidBy,
                        updates |-> updates, reverse |-> 0, current |-> 0,
                        stale |-> FALSE]]
    /\ nextId' = nextId + 1
    /\ UNCHANGED <<balances, settlements, last>>

\* update_balance reading the reverse balance as if there were none
ReadReverseAsNone(w) ==
    /\ calls[w].pc = "readReverse"
    /\ calls' = [calls EXCEPT ![w].reverse = 0, ![w].pc = "readCurrent"]
    /\ UNCHANGED <<balances, expenses, settlements, nextId, last>>

\* update_balance: reverse = get_balance_between_users(group, to, from)
ReadReverse(w) ==
    /\ calls[w].pc = "readReverse"
    /\ LET c       == calls[w]
           reverse == GetBalanceBetweenUsers(balances, c.groupId, c.paidBy,
                                             Head(c.updates).userId)
       IN  calls' = [calls EXCEPT ![w].reverse = reverse,
                                  ![w].pc = IF reverse > 0 THEN "setReverse"
                                            ELSE "readCurrent"]
    /\ UNCHANGED <<balances, expenses, settlements, nextId, last>>

\* update_balance, reverse > 0: set_balance(group, to, from, reverse - amount or 0)
SetReverse(w) ==
    /\ calls[w].pc = "setReverse"
    /\ LET c      == calls[w]
           amount == Head(c.updates).amount
       IN  /\ balances' = SetBalance(balances, c.groupId, c.paidBy, Head(c.updates).userId,
                              IF c.reverse > amount THEN c.reverse - amount ELSE 0)
           /\ calls' = AfterWrite(w, IF c.reverse < amount
                                      THEN [c EXCEPT !.pc = "setNetted"] ELSE Finish(c))
    /\ UNCHANGED <<expenses, settlements, nextId, last>>

\* update_balance, reverse < amount: set_balance(group, from, to, amount - reverse)
SetNetted(w) ==
    /\ calls[w].pc = "setNetted"
    /\ LET c == calls[w]
       IN  /\ balances' = SetBalance(balances, c.groupId, Head(c.updates).userId, c.paidBy,
                              Head(c.updates).amount - c.reverse)
           /\ calls' = AfterWrite(w, Finish(c))
    /\ UNCHANGED <<expenses, settlements, nextId, last>>

\* update_balance, no reverse: current = get_balance_between_users(group, from, to)
ReadCurrent(w) ==
    /\ calls[w].pc = "readCurrent"
    /\ LET c == calls[w]
       IN  calls' = [calls EXCEPT
                       ![w].current = GetBalanceBetweenUsers(balances, c.groupId,
                                          Head(c.updates).userId, c.paidBy),
                       ![w].pc = "setCurrent"]
    /\ UNCHANGED <<balances, expenses, settlements, nextId, last>>

\* update_balance, no reverse: set_balance(group, from, to, current + amount)
SetCurrent(w) ==
    /\ calls[w].pc = "setCurrent"
    /\ LET c == calls[w]
       IN  /\ balances' = SetBalance(balances, c.groupId, Head(c.updates).userId, c.paidBy,
                              c.current + Head(c.updates).amount)
           /\ calls' = AfterWrite(w, Finish(c))
    /\ UNCHANGED <<expenses, settlements, nextId, last>>

\* the expenses the workers are asked to add: A and B paying for each other,
\* and A paying for all three members
ConcurrentExpenses ==
    {[paidBy |-> "A", totalAmount |-> 4000,  list |-> <<"A", "B">>],
     [paidBy |-> "B", totalAmount |-> 4000,  list |-> <<"A", "B">>],
     [paidBy |-> "B", totalAmount |-> 10000, list |-> <<"A", "B">>],
     [paidBy |-> "A", totalAmount |-> 10000, list |-> <<"A", "B", "C">>]}

BeginAddExpenseStep ==
    /\ nextId < MaxCalls
    /\ \E w \in Workers, e \in ConcurrentExpenses :
          BeginAddExpense(w, "G1", e.paidBy, e.totalAmount, SPLIT_TYPE_EQUAL,
                          [i \in 1..Len(e.list) |-> Split(e.list[i], 0, 0)])

ReadReverseStep == \E w \in Workers : ReadReverse(w)

SetReverseStep == \E w \in Workers : SetReverse(w)

SetNettedStep == \E w \in Workers : SetNetted(w)

ReadCurrentStep == \E w \in Workers : ReadCurrent(w)

SetCurrentStep == \E w \in Workers : SetCurrent(w)

ConcurrentNext ==
    \/ BeginAddExpenseStep
    \/ ReadReverseStep
    \/ SetReverseStep
    \/ SetNettedStep
    \/ ReadCurrentStep
    \/ SetCurrentStep

ConcurrentSpec == Init /\ [][ConcurrentNext]_vars

----------------------------------------------------------------------------
(* record_settlement served by several workers at once: the checks read the *)
(* balances of the group once, the settlement is inserted and committed,    *)
(* apply_smart_settlement reads the balances once more and then writes one  *)
(* balance per set_balance, and the remaining balance is read at the end    *)

\* the rows of apply_smart_settlement that are still to be reduced, and the
\* place the call goes to when a loop has nothing left to do
AfterSnapshot(c) ==
    IF c.payerDebts # <<>> /\ c.amount > 0 THEN [c EXCEPT !.pc = "reducePayer"]
    ELSE IF c.recipientCredits # <<>> /\ c.amount > 0
         THEN [c EXCEPT !.pc = "reduceRecipient", !.payerDebts = <<>>]
    ELSE [c EXCEPT !.pc = "readRemaining", !.payerDebts = <<>>, !.recipientCredits = <<>>]

\* record_settlement that begins without the limit on the amount
BeginRecordSettlementNoLimit(w, g, from, to, amount) ==
    /\ calls[w].pc = "idle"
    /\ "ok" \in {SettlementResultNoLimit(balances, g, from, to, amount, fp) : fp \in BOOLEAN}
    /\ calls' = [calls EXCEPT ![w] =
           [pc |-> "insertSettlement", groupId |-> g, fromUserId |-> from,
            toUserId |-> to, amount |-> amount,
            maxAllowed |-> Min(Abs(UserNet(balances, g, from)),
                               Abs(UserNet(balances, g, to))),
            snap |-> <<>>, payerDebts |-> <<>>, recipientCredits |-> <<>>,
            remaining |-> 0]]
    /\ UNCHANGED <<balances, expenses, settlements, nextId, last>>

\* the checks of record_settlement up to the limit on the amount
BeginRecordSettlement(w, g, from, to, amount) ==
    /\ calls[w].pc = "idle"
    /\ "ok" \in {SettlementResult(balances, g, from, to, amount, fp) : fp \in BOOLEAN}
    /\ calls' = [calls EXCEPT ![w] =
           [pc |-> "insertSettlement", groupId |-> g, fromUserId |-> from,
            toUserId |-> to, amount |-> amount,
            maxAllowed |-> Min(Abs(UserNet(balances, g, from)),
                               Abs(UserNet(balances, g, to))),
            snap |-> <<>>, payerDebts |-> <<>>, recipientCredits |-> <<>>,
            remaining |-> 0]]
    /\ UNCHANGED <<balances, expenses, settlements, nextId, last>>

\* record_settlement: INSERT INTO settlements and commit
InsertSettlement(w) ==
    /\ calls[w].pc = "insertSettlement"
    /\ LET c == calls[w]
       IN  settlements' = Append(settlements,
               [groupId |-> c.groupId, fromUserId |-> c.fromUserId,
                toUserId |-> c.toUserId, amount |-> c.amount])
    /\ calls' = [calls EXCEPT ![w].pc = "readBalances"]
    /\ UNCHANGED <<balances, expenses, nextId, last>>

\* apply_smart_settlement: all_balances = get_group_balances(group) and the
\* two lists made of it
ReadBalances(w) ==
    /\ calls[w].pc = "readBalances"
    /\ LET c == calls[w]
           keys == GetGroupBalances(balances, c.groupId)
       IN  \E rows \in Perms(keys) :
              calls' = [calls EXCEPT ![w] = AfterSnapshot(
                  [c EXCEPT !.snap = [k \in keys |-> balances[k]],
                            !.payerDebts = SelectSeq(rows, LAMBDA k : k[2] = c.fromUserId),
                            !.recipientCredits = SelectSeq(rows, LAMBDA k : k[3] = c.toUserId),
                            !.remaining = c.amount])]
    /\ UNCHANGED <<balances, expenses, settlements, nextId, last>>

\* apply_smart_settlement, first loop: one set_balance of a debt of the payer
ReducePayer(w) ==
    /\ calls[w].pc = "reducePayer"
    /\ LET c         == calls[w]
           k         == Head(c.payerDebts)
           reduction == Min(c.snap[k], c.remaining)
           left      == c.remaining - reduction
       IN  /\ balances' = SetBalance(balances, k[1], k[2], k[3], c.snap[k] - reduction)
           /\ calls' = [calls EXCEPT ![w] =
                  IF Tail(c.payerDebts) # <<>> /\ left > 0
                  THEN [c EXCEPT !.payerDebts = Tail(c.payerDebts), !.remaining = left]
                  ELSE AfterSnapshot([c EXCEPT !.payerDebts = <<>>,
                                               !.remaining = c.amount])]
    /\ UNCHANGED <<expenses, settlements, nextId, last>>

\* apply_smart_settlement, second loop: one set_balance of a credit of the recipient
ReduceRecipient(w) ==
    /\ calls[w].pc = "reduceRecipient"
    /\ LET c         == calls[w]
           k         == Head(c.recipientCredits)
           reduction == Min(c.snap[k], c.remaining)
           left      == c.remaining - reduction
       IN  /\ balances' = SetBalance(balances, k[1], k[2], k[3], c.snap[k] - reduction)
           /\ calls' = [calls EXCEPT ![w] =
                  IF Tail(c.recipientCredits) # <<>> /\ left > 0
                  THEN [c EXCEPT !.recipientCredits = Tail(c.recipientCredits),
                                 !.remaining = left]
                  ELSE [c EXCEPT !.pc = "readRemaining", !.recipientCredits = <<>>,
                                 !.remaining = 0]]
    /\ UNCHANGED <<expenses, settlements, nextId, last>>

\* record_settlement: the remaining net balance of the payer, and the response
ReadRemaining(w) ==
    /\ calls[w].pc = "readRemaining"
    /\ LET c == calls[w]
       IN  last' = [NoRequest EXCEPT !.op = "recordSettlement", !.groupId = c.groupId,
                                     !.userId = c.fromUserId, !.toUserId = c.toUserId,
                                     !.amount = c.amount, !.res = "ok",
                                     !.remainingBalance =
                                         UserNet(balances, c.groupId, c.fromUserId)]
    /\ calls' = [calls EXCEPT ![w] = NoCall]
    /\ UNCHANGED <<balances, expenses, settlements, nextId>>

\* the debts of the group are made before the settlements arrive
PrepareExpenseStep ==
    /\ nextId < MaxExpenses
    /\ settlements = <<>>
    /\ \A w \in Workers : calls[w].pc = "idle"
    /\ \E e \in ConcurrentExpenses :
          AddExpense("G1", e.paidBy, e.totalAmount, SPLIT_TYPE_EQUAL,
                     [i \in 1..Len(e.list) |-> Split(e.list[i], 0, 0)])
    /\ UNCHANGED calls

\* the settlements the workers are asked to record
ConcurrentSettlements ==
    {[from |-> "B", to |-> "A", amount |-> 2000],
     [from |-> "B", to |-> "A", amount |-> 3333],
     [from |-> "C", to |-> "A", amount |-> 2000],
     [from |-> "A", to |-> "B", amount |-> 2000]}

BeginRecordSettlementStep ==
    /\ Len(settlements) + Cardinality({w \in Workers : calls[w].pc = "insertSettlement"})
          < MaxSettlements
    /\ \E w \in Workers, s \in ConcurrentSettlements :
          BeginRecordSettlement(w, "G1", s.from, s.to, s.amount)

InsertSettlementStep == \E w \in Workers : InsertSettlement(w)

ReadBalancesStep == \E w \in Workers : ReadBalances(w)

ReducePayerStep == \E w \in Workers : ReducePayer(w)

ReduceRecipientStep == \E w \in Workers : ReduceRecipient(w)

ReadRemainingStep == \E w \in Workers : ReadRemaining(w)

ConcurrentSettlementNext ==
    \/ PrepareExpenseStep
    \/ BeginRecordSettlementStep
    \/ InsertSettlementStep
    \/ ReadBalancesStep
    \/ ReducePayerStep
    \/ ReduceRecipientStep
    \/ ReadRemainingStep

ConcurrentSettlementSpec == Init /\ [][ConcurrentSettlementNext]_vars

----------------------------------------------------------------------------
(* add_expense that stops between its commit and the end of its balance     *)
(* updates, and recalculate_group_balances run afterwards                   *)

\* the process that serves the call of worker w ends where it is: what it has
\* committed stays, what it has not written is never written
Stop(w) ==
    /\ calls[w].pc \notin {"idle", "stopped"}
    /\ calls' = [calls EXCEPT ![w].pc = "stopped"]
    /\ UNCHANGED <<balances, expenses, settlements, nextId, last>>

\* no call is being served
Quiet == \A w \in Workers : calls[w].pc \in {"idle", "stopped"}

RecoveryAddExpenseStep ==
    /\ nextId < MaxCalls
    /\ Quiet
    /\ \E w \in Workers, e \in ConcurrentExpenses :
          BeginAddExpense(w, "G1", e.paidBy, e.totalAmount, SPLIT_TYPE_EQUAL,
                          [i \in 1..Len(e.list) |-> Split(e.list[i], 0, 0)])

StopStep == \E w \in Workers : Stop(w)

\* one settlement is enough to see a replay of settlements
RecoveryRecordSettlementStep ==
    /\ settlements = <<>>
    /\ Quiet
    /\ \E s \in ConcurrentSettlements : RecordSettlement("G1", s.from, s.to, s.amount)
    /\ UNCHANGED calls

RecoveryRecalculateStep ==
    /\ Quiet
    /\ Recalculate("G1")
    /\ UNCHANGED calls

RecoveryNext ==
    \/ RecoveryAddExpenseStep
    \/ ReadReverseStep
    \/ SetReverseStep
    \/ SetNettedStep
    \/ ReadCurrentStep
    \/ SetCurrentStep
    \/ StopStep
    \/ RecoveryRecordSettlementStep
    \/ RecoveryRecalculateStep

RecoverySpec == Init /\ [][RecoveryNext]_vars

----------------------------------------------------------------------------
(* update_balance on its own: transfers applied one after the other to the  *)
(* ledger of one group                                                      *)

\* the amounts of the transfers
TransferAmounts == {1000, 2000, 3000}

UpdateBalanceStep ==
    /\ nextId < MaxTransfers
    /\ \E f \in {"A", "B", "C"}, t \in {"A", "B", "C"}, amount \in TransferAmounts :
          /\ f # t
          /\ balances' = UpdateBalance(balances, "G1", f, t, amount)
          /\ last' = [NoRequest EXCEPT !.op = "updateBalance", !.groupId = "G1",
                                       !.userId = f, !.toUserId = t, !.amount = amount,
                                       !.res = "ok"]
    /\ nextId' = nextId + 1
    /\ UNCHANGED <<expenses, settlements, calls>>

TransferNext == UpdateBalanceStep

TransferSpec == Init /\ [][TransferNext]_vars

----------------------------------------------------------------------------
(* Properties of the ledger *)

Balance(g, f, t) == GetBalanceBetweenUsers(balances, g, f, t)

\* share of the i-th expense of the history that user u bears
RECURSIVE ShareOf(_, _)
ShareOf(splits, u) ==
    IF splits = <<>> THEN 0
    ELSE (IF Head(splits).userId = u THEN Head(splits).amount ELSE 0) + ShareOf(Tail(splits), u)

\* C1: in every state reached by serving add_expense, record_settlement,
\* delete_expense and recalculate requests one at a time, no two users of a
\* group owe each other at the same time: never balance(A->B) > 0 and
\* balance(B->A) > 0.
SingleDirection ==
    \A g \in Groups : \A a, b \in Users :
        a # b => ~(Balance(g, a, b) > 0 /\ Balance(g, b, a) > 0)

\* a second expense, paid by the debtor of the first, has been netted against
\* the balance the first one left
SingleDirectionWitness ==
    /\ last.op = "addExpense"
    /\ Len(expenses) = 2
    /\ settlements = <<>>
    /\ expenses[1].groupId = expenses[2].groupId
    /\ expenses[1].paidBy = "A"
    /\ expenses[2].paidBy = "B"
    /\ ShareOf(expenses[2].splits, "A") > 0
    /\ ShareOf(expenses[1].splits, "B") > ShareOf(expenses[2].splits, "A")
    /\ Balance(expenses[1].groupId, "B", "A")
         = ShareOf(expenses[1].splits, "B") - ShareOf(expenses[2].splits, "A")

\* C2: after any sequence of expenses, settlements, deletions and
\* recalculations the net positions of the members of a group add up to zero.
NetSumZero ==
    \A g \in Groups :
        SumSet([u \in Members(g) |-> UserNet(balances, g, u)], Members(g)) = 0

NetSumZeroWitness ==
    /\ last.op = "deleteExpense"
    /\ settlements # <<>>
    /\ \E u \in Members(last.groupId) : UserNet(balances, last.groupId, u) < 0

\* C3: every stored balance record has an amount > 0; an update that results
\* in zero deletes the record.
PositiveAmounts == \A k \in DOMAIN balances : balances[k] > 0

\* a settlement has consumed the whole ledger of its group
PositiveAmountsWitness ==
    /\ last.op = "recordSettlement"
    /\ \A k \in DOMAIN balances : k[1] # last.groupId

\* C4: recalculate is idempotent: running it again on the ledger it has just
\* produced yields the same ledger.
RecalculateIdempotent ==
    last.op = "recalculate" =>
        RecalculateGroupBalances(balances, last.groupId, expenses, settlements) = balances

RecalculateIdempotentWitness ==
    /\ last.op = "recalculate"
    /\ settlements # <<>>
    /\ GetGroupBalances(balances, last.groupId) # {}

\* C5: as long as no expense has been deleted, recalculate yields exactly the
\* ledger that add_expense and record_settlement maintained incrementally.
RecalculateMatchesLedger ==
    [][(last'.op = "recalculate" /\ Len(expenses) = nextId) => balances' = balances]_vars

\* net position a user would have if the ledger were replaced by the
\* transactions of a simplification
RECURSIVE SimplifiedNet(_, _)
SimplifiedNet(out, u) ==
    IF out = <<>> THEN 0
    ELSE (IF Head(out).toUserId = u THEN Head(out).amount ELSE 0)
         - (IF Head(out).fromUserId = u THEN Head(out).amount ELSE 0)
         + SimplifiedNet(Tail(out), u)

\* C6: the transactions get_simplified_balances returns give every user the
\* net position the user has in the ledger.
SimplificationPreservesNet ==
    last.op = "getSimplifiedBalances" =>
        \A u \in Users : SimplifiedNet(last.out, u) = UserNet(balances, last.groupId, u)

\* C7: get_simplified_balances returns no more transactions than the group
\* has directed balances.
SimplificationNotLarger ==
    last.op = "getSimplifiedBalances" =>
        Len(last.out) <= Cardinality(GetGroupBalances(balances, last.groupId))

\* what f owes t in the ledger b, net of what t owes f
SignedBalance(b, g, f, t) ==
    GetBalanceBetweenUsers(b, g, f, t) - GetBalanceBetweenUsers(b, g, t, f)

\* the users named by the splits of a request
Participants(splits) == {splits[i].userId : i \in 1..Len(splits)}

EqualSplitsOf(list) ==
    [i \in 1..Len(list) |-> [userId |-> list[i], amount |-> 0, percentage |-> 0]]

\* C8: an accepted add_expense raises, for every participant p other than the
\* payer, what p owes the payer (net of what the payer owes p) by the share of
\* p, and the share of the payer makes no balance; on an empty ledger the
\* balances of the group are then exactly p -> payer = share(p); a total of
\* 100.00 split EQUAL between A and B and paid by A gives exactly B -> A = 50.00.
AddExpenseAppliesShares ==
    [][last'.op = "addExpense" =>
        LET g     == last'.groupId
            payer == last'.userId
            calc  == CalculateSplits(last'.amount, last'.splitType, last'.splits)
        IN  /\ \A p \in Users \ {payer} :
                  SignedBalance(balances', g, p, payer)
                    = SignedBalance(balances, g, p, payer) + ShareOf(calc, p)
            /\ GetBalanceBetweenUsers(balances', g, payer, payer) = 0
            /\ GetGroupBalances(balances, g) = {} =>
                  BalanceRows(balances', g)
                    = {[fromUserId |-> p, toUserId |-> payer, amount |-> ShareOf(calc, p)] :
                          p \in {q \in Participants(last'.splits) \ {payer} : ShareOf(calc, q) > 0}}
            /\ ( /\ GetGroupBalances(balances, g) = {}
                 /\ payer = "A"
                 /\ last'.amount = 10000
                 /\ last'.splitType = SPLIT_TYPE_EQUAL
                 /\ last'.splits = EqualSplitsOf(<<"A", "B">>) )
               => BalanceRows(balances', g)
                    = {[fromUserId |-> "B", toUserId |-> "A", amount |-> 5000]}
    ]_vars

AddExpenseAppliesSharesWitness ==
    /\ last.op = "addExpense"
    /\ last.groupId = "G2"
    /\ last.userId = "A"
    /\ last.amount = 10000
    /\ last.splitType = SPLIT_TYPE_EQUAL
    /\ last.splits = EqualSplitsOf(<<"A", "B">>)
    /\ Len(expenses) = 1
    /\ balances = (<<"G2", "B", "A">> :> 5000)

\* C9: add_expense changes only balances between the payer and a participant
\* who is not the payer; in G1 = {A, B, C}, after A pays 90.00 split EQUAL among
\* A, B and C and B then pays 20.00 split EXACT with 20.00 for C, the balances
\* of the group are exactly B -> A = 30.00, C -> A = 30.00 and C -> B = 20.00.
AddExpenseFrame ==
    [][last'.op = "addExpense" =>
        LET g     == last'.groupId
            payer == last'.userId
            others == Participants(last'.splits) \ {payer}
        IN  /\ \A k \in DOMAIN balances \cup DOMAIN balances' :
                  GetBalanceBetweenUsers(balances', k[1], k[2], k[3])
                      # GetBalanceBetweenUsers(balances, k[1], k[2], k[3])
                  => /\ k[1] = g
                     /\ \/ k[2] \in others /\ k[3] = payer
                        \/ k[3] \in others /\ k[2] = payer
            /\ ( /\ g = "G1"
                 /\ settlements = <<>>
                 /\ nextId = 1
                 /\ Len(expenses) = 1
                 /\ expenses[1].groupId = "G1"
                 /\ expenses[1].paidBy = "A"
                 /\ expenses[1].totalAmount = 9000
                 /\ expenses[1].splitType = SPLIT_TYPE_EQUAL
                 /\ Participants(expenses[1].splits) = {"A", "B", "C"}
                 /\ payer = "B"
                 /\ last'.amount = 2000
                 /\ last'.splitType = SPLIT_TYPE_EXACT
                 /\ last'.splits = <<[userId |-> "B", amount |-> 0, percentage |-> 0],
                                     [userId |-> "C", amount |-> 2000, percentage |-> 0]>> )
               => BalanceRows(balances', "G1")
                    = {[fromUserId |-> "B", toUserId |-> "A", amount |-> 3000],
                       [fromUserId |-> "C", toUserId |-> "A", amount |-> 3000],
                       [fromUserId |-> "C", toUserId |-> "B", amount |-> 2000]}
    ]_vars

AddExpenseFrameWitness ==
    /\ last.op = "addExpense"
    /\ last.groupId = "G1"
    /\ last.userId = "B"
    /\ last.splitType = SPLIT_TYPE_EXACT
    /\ Participants(last.splits) = {"B", "C"}
    /\ Len(expenses) = 2
    /\ expenses[1].paidBy = "A"
    /\ expenses[1].totalAmount = 9000
    /\ Participants(expenses[1].splits) = {"A", "B", "C"}
    /\ balances = (<<"G1", "B", "A">> :> 3000 @@ <<"G1", "C", "A">> :> 3000
                   @@ <<"G1", "C", "B">> :> 2000)

\* C10: when the only balance of a group is from -> to = d, a settlement of d by
\* from to to is accepted and leaves no balance in the group and both net
\* positions at zero, and a settlement of a with 0 < a < d is accepted and
\* leaves exactly from -> to = d - a.
SettlementOfSoleBalance ==
    /\ [](\A g \in Groups : \A f, t \in Members(g) :
            GetGroupBalances(balances, g) = {<<g, f, t>>} =>
                \A a \in SettlementAmounts \cup {1, balances[<<g, f, t>>]} :
                    a <= balances[<<g, f, t>>] =>
                        \A fp \in BOOLEAN :
                            SettlementResult(balances, g, f, t, a, fp) = "ok")
    /\ [][( /\ last'.op = "recordSettlement"
            /\ GetGroupBalances(balances, last'.groupId)
                 = {<<last'.groupId, last'.userId, last'.toUserId>>} )
          => LET g == last'.groupId
                 f == last'.userId
                 t == last'.toUserId
                 d == balances[<<g, f, t>>]
                 a == last'.amount
             IN  /\ a = d => /\ GetGroupBalances(balances', g) = {}
                             /\ UserNet(balances', g, f) = 0
                             /\ UserNet(balances', g, t) = 0
                 /\ a < d => BalanceRows(balances', g)
                               = {[fromUserId |-> f, toUserId |-> t, amount |-> d - a]}
      ]_vars

SettlementOfSoleBalanceWitness ==
    /\ last.op = "recordSettlement"
    /\ last.groupId = "G2"
    /\ last.userId = "B"
    /\ last.toUserId = "A"
    /\ last.amount = 5000
    /\ Len(expenses) = 1
    /\ expenses[1].totalAmount = 10000
    /\ expenses[1].paidBy = "A"
    /\ Len(settlements) = 1
    /\ balances = <<>>

\* net position of u in group g: what the others owe u less what u owes them
NetPosition(g, u) ==
    SumSet([k \in DOMAIN balances |-> IF k[1] = g /\ k[3] = u THEN balances[k] ELSE 0],
           DOMAIN balances)
    - SumSet([k \in DOMAIN balances |-> IF k[1] = g /\ k[2] = u THEN balances[k] ELSE 0],
             DOMAIN balances)

\* C11: a record_settlement request whose amount is above
\* min(|net(from)|, |net(to)|) + 0.01 is rejected and changes nothing: no
\* settlement is stored and no balance changes; when the checks before the limit
\* pass (group, members, payer in debt, recipient owed) the error is
\* SettlementExceedsBalance.
ExcessiveSettlementRejected ==
    [][( /\ last'.op = "recordSettlement"
         /\ last'.amount > Min(Abs(NetPosition(last'.groupId, last'.userId)),
                               Abs(NetPosition(last'.groupId, last'.toUserId))) + 1 )
       => /\ last'.res # "ok"
          /\ settlements' = settlements
          /\ balances' = balances
          /\ ( /\ last'.groupId \in Groups
               /\ {last'.userId, last'.toUserId} \subseteq Members(last'.groupId)
               /\ NetPosition(last'.groupId, last'.userId) < 0
               /\ NetPosition(last'.groupId, last'.toUserId) > 0 )
             => last'.res = "SettlementExceedsBalance"
    ]_vars

\* B owes A 50.00 and offers 50.02
ExcessiveSettlementRejectedWitness ==
    /\ last.op = "recordSettlement"
    /\ last.res = "SettlementExceedsBalance"
    /\ last.groupId = "G1"
    /\ last.userId = "B"
    /\ last.toUserId = "A"
    /\ last.amount = 5002
    /\ balances = (<<"G1", "B", "A">> :> 5000)
    /\ settlements = <<>>

\* the error the checks of a settlement come to when made in the order group,
\* members, amount, payer in debt, recipient owed, limit
FirstFailedCheck(g, from, to, amount) ==
    IF g \notin Groups THEN "GroupNotFound"
    ELSE IF ~({from, to} \subseteq Members(g)) THEN "NotAMember"
    ELSE IF ~(amount > 0) THEN "NonPositiveAmount"
    ELSE IF ~(NetPosition(g, from) < 0) THEN "PayerNotInDebt"
    ELSE IF ~(NetPosition(g, to) > 0) THEN "RecipientNotOwed"
    ELSE IF ~(amount <= Min(Abs(NetPosition(g, from)), Abs(NetPosition(g, to))) + 1)
         THEN "SettlementExceedsBalance"
    ELSE "ok"

\* C12: record_settlement fails on the first of its preconditions that does not
\* hold, in the order GroupNotFound, NotAMember, NonPositiveAmount,
\* PayerNotInDebt, RecipientNotOwed, SettlementExceedsBalance (amount above
\* min(|net(from)|, |net(to)|) + 0.01); it is accepted exactly when all hold, and
\* a rejection leaves the settlements and the balances unchanged.
SettlementChecksInOrder ==
    [][last'.op = "recordSettlement" =>
        /\ last'.res = FirstFailedCheck(last'.groupId, last'.userId, last'.toUserId,
                                        last'.amount)
        /\ last'.res # "ok" => settlements' = settlements /\ balances' = balances
        /\ last'.res = "ok" => Len(settlements') = Len(settlements) + 1
    ]_vars

\* expense e has a share that one of x and y owes the other, its payer
Contributes(e, x, y) ==
    \E i \in 1..Len(e.splits) :
        /\ e.splits[i].amount > 0
        /\ e.splits[i].userId # e.paidBy
        /\ {e.splits[i].userId, e.paidBy} = {x, y}

\* C13: after delete_expense, a balance the deleted expense alone contributed to
\* is absent, and every balance of the group between two users the deleted
\* expense has no share between keeps its amount.
DeleteExpenseFrame ==
    [][(last'.op = "deleteExpense" /\ last'.res = "ok") =>
        \A i \in 1..Len(expenses) : expenses[i].id = last'.expenseId =>
            LET e == expenses[i]
                g == e.groupId
            IN  \A x, y \in Members(g) :
                  /\ ( /\ Contributes(e, x, y)
                       /\ \A j \in 1..Len(expenses') : ~Contributes(expenses'[j], x, y) )
                     => GetBalanceBetweenUsers(balances', g, x, y) = 0
                  /\ ~Contributes(e, x, y)
                     => GetBalanceBetweenUsers(balances', g, x, y)
                          = GetBalanceBetweenUsers(balances, g, x, y)
    ]_vars

\* a declaration that fails one of the checks of an expense
InvalidExpense(g, paidBy, totalAmount, splitType, splits) ==
    \/ g \notin Groups
    \/ g \in Groups /\ paidBy \notin Members(g)
    \/ g \in Groups /\ \E i \in 1..Len(splits) : splits[i].userId \notin Members(g)
    \/ totalAmount <= 0
    \/ splits = <<>>
    \/ /\ splitType = SPLIT_TYPE_EXACT
       /\ \/ Abs(SumSeq([i \in 1..Len(splits) |-> splits[i].amount]) - totalAmount) > 1
          \/ \E i \in 1..Len(splits) : splits[i].amount < 0
    \/ /\ splitType = SPLIT_TYPE_PERCENTAGE
       /\ \/ Abs(SumSeq([i \in 1..Len(splits) |-> splits[i].percentage])
                    - HundredPercent) > 1
          \/ \E i \in 1..Len(splits) : splits[i].percentage < 0
    \/ splitType \notin {"EQUAL", "EXACT", "PERCENTAGE"}

\* C14: an add_expense request that fails a check (group missing, payer or a
\* participant not a member, total not positive, no participant, sum of EXACT
\* amounts or of percentages off by more than the tolerance, negative share,
\* unknown split type) is rejected and writes nothing: no expense, no split and
\* no balance is created or changed.
RejectedExpenseWritesNothing ==
    [][( /\ last'.op = "addExpense"
         /\ InvalidExpense(last'.groupId, last'.userId, last'.amount, last'.splitType,
                           last'.splits) )
       => /\ last'.res # "ok"
          /\ expenses' = expenses
          /\ balances' = balances
          /\ nextId' = nextId
    ]_vars

\* with B owing A, an expense whose payer A is a member and whose participant D
\* is not has been refused
RejectedExpenseWritesNothingWitness ==
    /\ last.op = "addExpense"
    /\ last.res = "NonMemberParticipant"
    /\ last.groupId = "G1"
    /\ last.userId = "A"
    /\ Len(expenses) = 1
    /\ GetBalanceBetweenUsers(balances, "G1", "B", "A") > 0

ExpenseIds(exps) == {exps[i].id : i \in 1..Len(exps)}

\* C15: delete_expense of an id that no expense has answers "not found" and
\* changes nothing; of an existing id it removes that expense and no other,
\* leaves the balances of the other groups alone, rebuilds the balances of the
\* expense's group from the remaining history and answers success.
DeleteExpenseOutcome ==
    [][last'.op = "deleteExpense" =>
        IF last'.expenseId \notin ExpenseIds(expenses)
        THEN /\ last'.res = "ExpenseNotFound"
             /\ expenses' = expenses
             /\ balances' = balances
             /\ settlements' = settlements
        ELSE /\ last'.res = "ok"
             /\ expenses' = SelectSeq(expenses, LAMBDA e : e.id # last'.expenseId)
             /\ Len(expenses') = Len(expenses) - 1
             /\ settlements' = settlements
             /\ \A i \in 1..Len(expenses) : expenses[i].id = last'.expenseId =>
                   LET g == expenses[i].groupId
                   IN  /\ last'.groupId = g
                       /\ \A k \in DOMAIN balances \cup DOMAIN balances' :
                             k[1] # g =>
                               GetBalanceBetweenUsers(balances', k[1], k[2], k[3])
                                 = GetBalanceBetweenUsers(balances, k[1], k[2], k[3])
                       /\ (\A j \in 1..Len(expenses') : expenses'[j].groupId # g)
                             => GetGroupBalances(balances', g) = {}
                       /\ balances'
                             = RecalculateGroupBalances(balances, g, expenses', settlements)
    ]_vars

\* the only expense was deleted, leaving no balance, and a second request to
\* delete it was answered "not found"
DeleteExpenseOutcomeWitness ==
    /\ last.op = "deleteExpense"
    /\ last.res = "ExpenseNotFound"
    /\ last.expenseId = 1
    /\ nextId = 1
    /\ expenses = <<>>
    /\ balances = <<>>

----------------------------------------------------------------------------
(* Properties of the split calculator *)

Amounts(splits) == [i \in 1..Len(splits) |-> splits[i].amount]

PercentagesOf(splits) == [i \in 1..Len(splits) |-> splits[i].percentage]

Reported(errors) == {errors[i] : i \in 1..Len(errors)}

\* C16: the shares calculated for an accepted EQUAL or PERCENTAGE declaration of
\* n participants add up to the total within 0.01 * n.
RoundingBound ==
    ( /\ last.op = "calculateSplits"
      /\ last.res = "ok"
      /\ last.splitType \in {SPLIT_TYPE_EQUAL, SPLIT_TYPE_PERCENTAGE} )
    => Abs(last.amount - SumSeq(Amounts(last.out))) <= 1 * Len(last.splits)

\* C17: the shares calculated for an EXACT declaration that passed validation
\* are the amounts declared, and they add up to the total exactly.
ExactSharesSumToTotal ==
    ( /\ last.op = "calculateSplits"
      /\ last.res = "ok"
      /\ last.splitType = SPLIT_TYPE_EXACT )
    => /\ Amounts(last.out) = Amounts(last.splits)
       /\ SumSeq(Amounts(last.out)) = last.amount

\* C18: validation reports SplitSumMismatch for an EXACT declaration whose
\* amounts differ in sum from the total by more than 0.01 and for a PERCENTAGE
\* declaration whose percentages differ in sum from 100 by more than 0.01, and
\* does not report it when the sum is within 0.01.
SumMismatchBeyondTolerance ==
    last.op = "validateExpense" =>
        /\ last.splitType = SPLIT_TYPE_EXACT =>
              ( "SplitSumMismatch" \in Reported(last.errors)
                  <=> Abs(SumSeq(Amounts(last.splits)) - last.amount) > 1 )
        /\ last.splitType = SPLIT_TYPE_PERCENTAGE =>
              ( "SplitSumMismatch" \in Reported(last.errors)
                  <=> Abs(SumSeq(PercentagesOf(last.splits)) - HundredPercent) > 1 )

\* C19: a declaration with a negative amount (EXACT) or a negative percentage
\* (PERCENTAGE) fails validation with NegativeShare reported, one without
\* participants with EmptySplit reported, and one of a split type other than
\* EQUAL, EXACT and PERCENTAGE fails, with UnknownSplitType once positive total
\* and participants have let it pass validation; none of them gets shares.
InvalidDeclarationFails ==
    last.op \in {"validateExpense", "calculateSplits"} =>
        /\ ( \/ /\ last.splitType = SPLIT_TYPE_EXACT
                 /\ \E i \in 1..Len(last.splits) : last.splits[i].amount < 0
             \/ /\ last.splitType = SPLIT_TYPE_PERCENTAGE
                 /\ \E i \in 1..Len(last.splits) : last.splits[i].percentage < 0 )
           => /\ "NegativeShare" \in Reported(last.errors)
              /\ last.op = "validateExpense"
              /\ last.res = "ValidationFailed"
              /\ last.out = <<>>
        /\ last.splits = <<>>
           => /\ "EmptySplit" \in Reported(last.errors)
              /\ last.op = "validateExpense"
              /\ last.res = "ValidationFailed"
              /\ last.out = <<>>
        /\ last.splitType \notin {"EQUAL", "EXACT", "PERCENTAGE"}
           => /\ last.out = <<>>
              /\ last.op = "calculateSplits" => last.res = "UnknownSplitType"
              /\ last.op = "validateExpense" =>
                    (last.res = "ok" <=> (last.amount > 0 /\ last.splits # <<>>))

\* the calculator has refused a declaration of two participants whose split
\* type it does not know
InvalidDeclarationFailsWitness ==
    /\ last.op = "calculateSplits"
    /\ last.splitType = "SHARES"
    /\ last.res = "UnknownSplitType"
    /\ last.amount = 10000
    /\ Len(last.splits) = 2

----------------------------------------------------------------------------
(* Properties of concurrent requests *)

\* C20: without serialization two update_balance calls on the same pair of
\* users in opposite directions can leave balances in both directions: the
\* single-direction invariant breaks, and only by a set_balance of a call
\* whose reads another worker's write has overtaken, on the pair of users of
\* that call; a state with both balance(A -> B) > 0 and balance(B -> A) > 0 is
\* reached.
LostUpdateBreaksSingleDirection ==
    [][(SingleDirection /\ ~SingleDirection') =>
        \E w \in Workers :
            /\ calls[w].pc \in {"setReverse", "setNetted", "setCurrent"}
            /\ calls'[w] # calls[w]
            /\ calls[w].stale
            /\ LET g == calls[w].groupId
                   f == Head(calls[w].updates).userId
                   t == calls[w].paidBy
               IN  /\ GetBalanceBetweenUsers(balances', g, f, t) > 0
                   /\ GetBalanceBetweenUsers(balances', g, t, f) > 0
    ]_vars

\* both requests have returned and A owes B while B owes A
LostUpdateBreaksSingleDirectionWitness ==
    /\ \A w \in Workers : calls[w].pc = "idle"
    /\ Len(expenses) = 2
    /\ GetBalanceBetweenUsers(balances, "G1", "A", "B") > 0
    /\ GetBalanceBetweenUsers(balances, "G1", "B", "A") > 0

\* the total of the recorded settlements of group g from f to t
RECURSIVE RecordedTotal(_, _, _, _)
RecordedTotal(setts, g, f, t) ==
    IF setts = <<>> THEN 0
    ELSE LET s == Head(setts)
         IN  (IF s.groupId = g /\ s.fromUserId = f /\ s.toUserId = t THEN s.amount ELSE 0)
             + RecordedTotal(Tail(setts), g, f, t)

\* min(|net(f)|, |net(t)|) on the ledger the expenses of group g make, before
\* any settlement
PreSettlementLimit(g, f, t) ==
    LET b == ReplayExpenses(<<>>, g, GetGroupExpenses(expenses, g))
    IN  Min(Abs(UserNet(b, g, f)), Abs(UserNet(b, g, t)))

\* C21: with workers that are not kept apart, the recorded settlements of one
\* payer to one recipient come to exceed the limit of the ledger before any
\* settlement by more than 0.01 only when a settlement is already recorded
\* and the call that records the next one was checked against a limit larger
\* than what the recorded settlements of the pair leave of it
DoubleCountedSettlement ==
    [][\A w \in Workers :
          (/\ calls[w].pc = "insertSettlement"
           /\ calls'[w].pc = "readBalances"
           /\ RecordedTotal(settlements', calls[w].groupId, calls[w].fromUserId,
                            calls[w].toUserId)
                > PreSettlementLimit(calls[w].groupId, calls[w].fromUserId,
                                     calls[w].toUserId) + 1)
          => LET g == calls[w].groupId
                 f == calls[w].fromUserId
                 t == calls[w].toUserId
             IN  /\ settlements # <<>>
                 /\ calls[w].maxAllowed
                      > PreSettlementLimit(g, f, t) - RecordedTotal(settlements, g, f, t)
      ]_vars

\* two settlements from B to A are recorded and applied, and their total
\* exceeds what B owed before either of them
DoubleCountedSettlementWitness ==
    /\ Len(settlements) = 2
    /\ \A i \in 1..2 : /\ settlements[i].fromUserId = "B"
                       /\ settlements[i].toUserId = "A"
    /\ RecordedTotal(settlements, "G1", "B", "A") > PreSettlementLimit("G1", "B", "A") + 1
    /\ \A w \in Workers : calls[w].pc = "idle"

\* the ledger of group g when every add_expense of the history has run to its
\* end, one after the other in the order the expenses were created, each
\* with the shares it stored
RECURSIVE CompletedLedger(_, _, _)
CompletedLedger(b, g, exps) ==
    IF exps = <<>> THEN b
    ELSE LET e == Head(exps)
             shares == [i \in 1..Len(e.splits) |->
                           [userId |-> e.splits[i].userId, amount |-> e.splits[i].amount]]
         IN  CompletedLedger(
                 IF e.groupId = g
                 THEN ApplyUpdates(b, g, e.paidBy, BalanceUpdates(shares, e.paidBy))
                 ELSE b,
                 g, Tail(exps))

QueriesArePure ==
    [][(/\ last'.op \in {"getGroupBalances", "getSimplifiedBalances", "getUserBalances"}
        /\ last' # last)
       => /\ balances' = balances
          /\ expenses' = expenses
          /\ settlements' = settlements
          /\ last'.op = "getGroupBalances"
                => last'.rows = BalanceRows(balances, last'.groupId)
          /\ last'.op = "getSimplifiedBalances"
                => \E rows \in Perms(GetGroupBalances(balances, last'.groupId)) :
                      last'.out = GetSimplifiedBalances(balances, rows)
          /\ last'.op = "getUserBalances"
                => /\ last'.owes \cup last'.owed = UserBalanceRows(balances, last'.userId)
                   /\ last'.netBalance
                        = SumSet([g \in GroupIds |-> UserNet(balances, g, last'.userId)],
                                 GroupIds)
      ]_vars

\* get_user_balances has answered for a user who owes and is owed, in a
\* history with an expense and a settlement
QueriesArePureWitness ==
    /\ last.op = "getUserBalances"
    /\ last.owes # {}
    /\ last.owed # {}
    /\ expenses # <<>>
    /\ settlements # <<>>

\* C24: update_balance(group, debtor, creditor, delta) with delta > 0 on a ledger
\* with balances in one direction only: a larger reverse balance is lowered by
\* delta and the forward balance is left alone; a smaller one is deleted and
\* the forward balance becomes delta minus it; an equal one is deleted and no
\* forward balance is made; without a reverse balance the forward balance
\* grows by delta. The signed balance of the pair rises by delta and the
\* record of no other pair changes.
UpdateBalanceCases ==
    [][(nextId' = nextId + 1 /\ last'.op = "updateBalance" /\ SingleDirection)
       => LET g       == last'.groupId
              f       == last'.userId
              t       == last'.toUserId
              delta   == last'.amount
              reverse == GetBalanceBetweenUsers(balances, g, t, f)
              forward == GetBalanceBetweenUsers(balances, g, f, t)
          IN  /\ reverse > delta
                    => /\ balances'[<<g, t, f>>] = reverse - delta
                       /\ <<g, f, t>> \notin DOMAIN balances'
                       /\ forward = 0
              /\ (0 < reverse /\ reverse < delta)
                    => /\ <<g, t, f>> \notin DOMAIN balances'
                       /\ balances'[<<g, f, t>>] = delta - reverse
              /\ reverse = delta
                    => /\ <<g, t, f>> \notin DOMAIN balances'
                       /\ <<g, f, t>> \notin DOMAIN balances'
              /\ reverse = 0
                    => /\ balances'[<<g, f, t>>] = forward + delta
                       /\ <<g, t, f>> \notin DOMAIN balances'
              /\ SignedBalance(balances', g, f, t) = SignedBalance(balances, g, f, t) + delta
              /\ \A k \in (DOMAIN balances \cup DOMAIN balances') \ {<<g, f, t>>, <<g, t, f>>} :
                    /\ k \in DOMAIN balances
                    /\ k \in DOMAIN balances'
                    /\ balances'[k] = balances[k]
      ]_vars

\* a transfer from B to A of 2000 has met a reverse balance of 3000 and left
\* A owing B 1000, beside a balance of another pair
UpdateBalanceCasesWitness ==
    /\ last.op = "updateBalance"
    /\ last.userId = "B"
    /\ last.toUserId = "A"
    /\ last.amount = 2000
    /\ GetBalanceBetweenUsers(balances, "G1", "A", "B") = 1000
    /\ \E k \in DOMAIN balances : k[2] = "C" \/ k[3] = "C"

\* the total of what user u owes in group g, and of what u is owed
Outgoing(b, g, u) ==
    LET rows == {k \in GetGroupBalances(b, g) : k[2] = u}
    IN  SumSet([k \in rows |-> b[k]], rows)

Incoming(b, g, u) ==
    LET rows == {k \in GetGroupBalances(b, g) : k[3] = u}
    IN  SumSet([k \in rows |-> b[k]], rows)

\* C25: an accepted record_settlement lowers the total of what the payer owes
\* by min(amount, that total) and the total of what the recipient is owed by
\* min(amount, that total), also when the balance from the payer to the
\* recipient is in both lists.
SettlementReducesBothSides ==
    [][(last'.op = "recordSettlement" /\ Len(settlements') = Len(settlements) + 1)
       => LET g    == last'.groupId
              from == last'.userId
              to   == last'.toUserId
          IN  /\ Outgoing(balances, g, from) - Outgoing(balances', g, from)
                    = Min(last'.amount, Outgoing(balances, g, from))
              /\ Incoming(balances, g, to) - Incoming(balances', g, to)
                    = Min(last'.amount, Incoming(balances, g, to))
      ]_vars

\* the debtors and the creditors of get_simplified_balances for the ledger of
\* the last query, with the magnitude of their net positions
Debtors == {u \in Users : UserNet(balances, last.groupId, u) < 0 - 1}

Creditors == {u \in Users : UserNet(balances, last.groupId, u) > 1}

\* what is left of the debt of debtor u, and of the credit of creditor u,
\* before the n-th transaction of the last answer
DebtLeft(u, n) ==
    Abs(UserNet(balances, last.groupId, u))
    - SumSeq([m \in 1..(n - 1) |->
                 IF last.out[m].fromUserId = u THEN last.out[m].amount ELSE 0])

CreditLeft(u, n) ==
    Abs(UserNet(balances, last.groupId, u))
    - SumSeq([m \in 1..(n - 1) |->
                 IF last.out[m].toUserId = u THEN last.out[m].amount ELSE 0])

\* C26 as stated: every transaction of get_simplified_balances pairs the debtor
\* with the largest remaining debt among the debtors not yet cleared with the
\* creditor with the largest remaining credit among the creditors not yet
\* cleared, for the smaller of the two remainders.
GreedyPairsLargestRemaining ==
    last.op = "getSimplifiedBalances" =>
        \A n \in 1..Len(last.out) :
            LET d == last.out[n].fromUserId
                c == last.out[n].toUserId
            IN  /\ d \in Debtors /\ c \in Creditors
                /\ \A u \in Debtors : DebtLeft(u, n) <= DebtLeft(d, n)
                /\ \A u \in Creditors : CreditLeft(u, n) <= CreditLeft(c, n)
                /\ last.out[n].amount = Min(DebtLeft(d, n), CreditLeft(c, n))

\* C26 amended: the lists are sorted once, by the net positions at the start.
\* Every transaction pairs a debtor and a creditor that are not yet cleared,
\* for the smaller of their two remainders; every debtor whose net debt was
\* larger at the start is cleared by then, every other debtor is either
\* cleared or not yet paid anything, and the same holds for the creditors.
GreedyPairsInSortedOrder ==
    last.op = "getSimplifiedBalances" =>
        \A n \in 1..Len(last.out) :
            LET d == last.out[n].fromUserId
                c == last.out[n].toUserId
            IN  /\ d \in Debtors /\ c \in Creditors
                /\ DebtLeft(d, n) >= 1 /\ CreditLeft(c, n) >= 1
                /\ last.out[n].amount = Min(DebtLeft(d, n), CreditLeft(c, n))
                /\ \A u \in Debtors \ {d} :
                      /\ DebtLeft(u, 1) > DebtLeft(d, 1) => DebtLeft(u, n) < 1
                      /\ DebtLeft(u, n) < 1 \/ DebtLeft(u, n) = DebtLeft(u, 1)
                /\ \A u \in Creditors \ {c} :
                      /\ CreditLeft(u, 1) > CreditLeft(c, 1) => CreditLeft(u, n) < 1
                      /\ CreditLeft(u, n) < 1 \/ CreditLeft(u, n) = CreditLeft(u, 1)

\* an answer whose second transaction goes on with a creditor of whom less is
\* left than of another creditor
GreedyPairsInSortedOrderWitness ==
    /\ last.op = "getSimplifiedBalances"
    /\ Len(last.out) >= 3
    /\ \E u \in Creditors : CreditLeft(u, 2) > CreditLeft(last.out[2].toUserId, 2)

\* the ledger of a recalculation of group g after the replay of the expenses
\* and of the first n recorded settlements
ReplayedUpTo(g, n) ==
    ReplaySettlements(
        ReplayExpenses(ClearGroupBalances(balances, g), g, GetGroupExpenses(expenses, g)),
        g, SubSeq(settlements, 1, n))

\* C27: in a recalculation every recorded settlement of the group lowers the
\* balance from its payer to its recipient by min(amount, that balance) and
\* changes no other record; where there is no such balance it changes nothing.
SettlementReplayLowersOnePair ==
    last.op = "recalculate" =>
        LET g == last.groupId
        IN  /\ balances = ReplayedUpTo(g, Len(settlements))
            /\ \A n \in 1..Len(settlements) :
                  LET s      == settlements[n]
                      before == ReplayedUpTo(g, n - 1)
                      after  == ReplayedUpTo(g, n)
                      k      == <<g, s.fromUserId, s.toUserId>>
                      current == GetBalanceBetweenUsers(before, g, s.fromUserId, s.toUserId)
                  IN  IF s.groupId = g /\ current > 0
                      THEN /\ GetBalanceBetweenUsers(after, g, s.fromUserId, s.toUserId)
                                = current - Min(s.amount, current)
                           /\ \A x \in (DOMAIN before \cup DOMAIN after) \ {k} :
                                 /\ x \in DOMAIN before
                                 /\ x \in DOMAIN after
                                 /\ after[x] = before[x]
                      ELSE after = before

\* a recalculation in which one settlement has lowered a balance and another,
\* from a payer the replayed expenses leave as the creditor, has changed nothing
SettlementReplayLowersOnePairWitness ==
    /\ last.op = "recalculate"
    /\ Len(settlements) = 2
    /\ \E n \in 1..2 :
          /\ settlements[n].groupId = last.groupId
          /\ ReplayedUpTo(last.groupId, n) # ReplayedUpTo(last.groupId, n - 1)
    /\ \E n \in 1..2 :
          /\ settlements[n].groupId = last.groupId
          /\ GetBalanceBetweenUsers(ReplayedUpTo(last.groupId, n - 1), last.groupId,
                 settlements[n].toUserId, settlements[n].fromUserId) > 0

\* what x owes y in group g by the shares of the expenses of the history: the
\* shares of x in what y paid less the shares of y in what x paid
RECURSIVE NettedShares(_, _, _, _)
NettedShares(exps, g, x, y) ==
    IF exps = <<>> THEN 0
    ELSE LET e == Head(exps)
         IN  (IF e.groupId = g /\ e.paidBy = y THEN ShareOf(e.splits, x) ELSE 0)
             - (IF e.groupId = g /\ e.paidBy = x THEN ShareOf(e.splits, y) ELSE 0)
             + NettedShares(Tail(exps), g, x, y)

TransfersOf(g) ==
    {x \in (1..Len(expenses)) \X (1..3) :
        /\ expenses[x[1]].groupId = g
        /\ x[2] <= Len(expenses[x[1]].splits)
        /\ expenses[x[1]].splits[x[2]].userId # expenses[x[1]].paidBy
        /\ expenses[x[1]].splits[x[2]].amount > 0}

\* the transfers applied one at a time in the given order
RECURSIVE ApplyTransfers(_, _, _)
ApplyTransfers(b, g, order) ==
    IF order = <<>> THEN b
    ELSE LET e == expenses[Head(order)[1]]
             s == e.splits[Head(order)[2]]
         IN  ApplyTransfers(UpdateBalance(b, g, s.userId, e.paidBy, s.amount), g, Tail(order))

SettlementMovesNetByAmount ==
    [][(/\ last'.op = "recordSettlement"
        /\ Len(settlements') = Len(settlements) + 1
        /\ last'.amount <= Min(Abs(UserNet(balances, last'.groupId, last'.userId)),
                               Abs(UserNet(balances, last'.groupId, last'.toUserId))))
       => LET g    == last'.groupId
              from == last'.userId
              to   == last'.toUserId
          IN  /\ UserNet(balances', g, from) = UserNet(balances, g, from) + last'.amount
              /\ UserNet(balances', g, to) = UserNet(balances, g, to) - last'.amount
              /\ last'.remainingBalance = UserNet(balances, g, from) + last'.amount
              /\ last'.remainingBalance <= 0
      ]_vars

\* C31: an accepted record_settlement leaves the net position of every user
\* other than its payer and its recipient as it was.
SettlementLeavesOthersNet ==
    [][(last'.op = "recordSettlement" /\ Len(settlements') = Len(settlements) + 1)
       => \A u \in Users \ {last'.userId, last'.toUserId} :
             UserNet(balances', last'.groupId, u) = UserNet(balances, last'.groupId, u)
      ]_vars

\* C32: an accepted record_settlement creates no balance that was not there
\* before it and raises the amount of none.
SettlementOnlyLowers ==
    [][(last'.op = "recordSettlement" /\ Len(settlements') = Len(settlements) + 1)
       => \A k \in DOMAIN balances' :
             /\ k \in DOMAIN balances
             /\ balances'[k] <= balances[k]
      ]_vars

\* the first settlement of a history in which no expense was deleted has been
\* applied: one balance the expenses had made is gone and another is left
\* lower than they had made it
SettlementOnlyLowersWitness ==
    /\ last.op = "recordSettlement"
    /\ Len(settlements) = 1
    /\ Len(expenses) = nextId
    /\ \E x \in Users, y \in Users :
          /\ NettedShares(expenses, last.groupId, x, y) > 0
          /\ <<last.groupId, x, y>> \notin DOMAIN balances
    /\ \E x \in Users, y \in Users :
          /\ <<last.groupId, x, y>> \in DOMAIN balances
          /\ balances[<<last.groupId, x, y>>] < NettedShares(expenses, last.groupId, x, y)

\* C33: no state holds a balance whose debtor is its creditor.
NoSelfBalance ==
    \A k \in DOMAIN balances : k[2] # k[3]

\* a group recalculated with a settlement in the history and an expense whose
\* payer bears a share of it, and balances in the ledger
NoSelfBalanceWitness ==
    /\ last.op = "recalculate"
    /\ \E i \in 1..Len(settlements) : settlements[i].groupId = last.groupId
    /\ \E i \in 1..Len(expenses) :
          /\ expenses[i].groupId = last.groupId
          /\ ShareOf(expenses[i].splits, expenses[i].paidBy) > 0
    /\ GetGroupBalances(balances, last.groupId) # {}

\* C34: a record_settlement request whose payer is its recipient is rejected
\* in every state, stores no settlement and changes no balance.
SelfSettlementRejected ==
    [][(last'.op = "recordSettlement" /\ last'.userId = last'.toUserId)
       => /\ last'.res # "ok"
          /\ settlements' = settlements
          /\ balances' = balances
      ]_vars

\* a member who owes money in the group has asked to settle with themselves
\* and was refused as a recipient who is not owed
SelfSettlementRejectedWitness ==
    /\ last.op = "recordSettlement"
    /\ last.userId = last.toUserId
    /\ last.res = "RecipientNotOwed"
    /\ UserNet(balances, last.groupId, last.userId) < 0

\* C35: add_expense, record_settlement, delete_expense and recalculate on one
\* group leave every balance of every other group as it was, also between
\* users who are members of both groups.
OtherGroupsUntouched ==
    [][last'.op \in {"addExpense", "recordSettlement", "deleteExpense", "recalculate"}
       => \A k \in DOMAIN balances \cup DOMAIN balances' :
             k[1] # last'.groupId
             => /\ k \in DOMAIN balances
                /\ k \in DOMAIN balances'
                /\ balances'[k] = balances[k]
      ]_vars

\* an expense of G1 between A and B has been deleted, a settlement is
\* recorded, and G2, of which A and B are members too, holds a balance
\* between them
OtherGroupsUntouchedWitness ==
    /\ last.op = "deleteExpense"
    /\ last.groupId = "G1"
    /\ settlements # <<>>
    /\ \E k \in GetGroupBalances(balances, "G2") : {k[2], k[3]} = {"A", "B"}

\* C36: every transaction of get_simplified_balances clears its debtor or its
\* creditor, so the loop ends: with d debtors and c creditors the answer has
\* at most d + c - 1 transactions, none when there is no debtor or no
\* creditor, and each one is a positive amount from a net debtor to a net
\* creditor.
SimplificationTerminates ==
    last.op = "getSimplifiedBalances" =>
        /\ (Debtors = {} \/ Creditors = {}) => last.out = <<>>
        /\ last.out # <<>> => Len(last.out) <= Cardinality(Debtors) + Cardinality(Creditors) - 1
        /\ \A n \in 1..Len(last.out) :
              /\ last.out[n].amount > 0
              /\ last.out[n].fromUserId \in Debtors
              /\ last.out[n].toUserId \in Creditors
              /\ \/ DebtLeft(last.out[n].fromUserId, n + 1) < 1
                 \/ CreditLeft(last.out[n].toUserId, n + 1) < 1

\* an answer for three debtors and two creditors that takes all four
\* transactions the two pointers allow
SimplificationTerminatesWitness ==
    /\ last.op = "getSimplifiedBalances"
    /\ Cardinality(Debtors) = 3
    /\ Cardinality(Creditors) = 2
    /\ Len(last.out) = 4

====
